---- MODULE Spec2Model ----
(***************************************************************************)
(* A model of the post-explainer backend: the explanation pipeline         *)
(* (PostExplainer), its cache, search orchestration, LLM service, image    *)
(* processor, query extractor and response parser.                         *)
(*                                                                         *)
(* Text is modelled as a sequence of one-character strings, so that        *)
(* lowercasing, trimming, splitting and the regular expressions of the     *)
(* source are computed character by character.                             *)
(***************************************************************************)
EXTENDS Integers, Sequences, FiniteSets, TLC

\* Python's None, for a value that is otherwise a record (None), a string or list
\* (NoneStr: no text has a character "None") or a number (NoneNum)
None    == [none |-> TRUE]
NoneStr == << "None" >>
NoneNum == 0 - 1

(***************************************************************************)
(* Characters and Python's str operations                                  *)
(***************************************************************************)
UpperSeq == << "A","B","C","D","E","F","G","H","I","J","K","L","M",
               "N","O","P","Q","R","S","T","U","V","W","X","Y","Z" >>
LowerSeq == << "a","b","c","d","e","f","g","h","i","j","k","l","m",
               "n","o","p","q","r","s","t","u","v","w","x","y","z" >>
DigitSeq == << "0","1","2","3","4","5","6","7","8","9" >>

UpperChars == { UpperSeq[i] : i \in 1..Len(UpperSeq) }
LowerChars == { LowerSeq[i] : i \in 1..Len(LowerSeq) }
DigitChars == { DigitSeq[i] : i \in 1..Len(DigitSeq) }
WordChars  == UpperChars \cup LowerChars \cup DigitChars \cup {"_"}
SpaceChars == { " ", "\n", "\t", "\r" }
QuoteChars == { "\"", "'" }

SetMin(S) == CHOOSE x \in S : \A y \in S : x <= y
SetMax(S) == CHOOSE x \in S : \A y \in S : y <= x

\* str.lower() on one character
LowerChar(c) ==
  IF c \in UpperChars
    THEN LowerSeq[CHOOSE i \in 1..Len(UpperSeq) : UpperSeq[i] = c]
    ELSE c

\* str.lower()
Lower(s) == [i \in 1..Len(s) |-> LowerChar(s[i])]

\* str.strip(): drop leading and trailing whitespace
Strip(s) ==
  LET keep == { i \in 1..Len(s) : s[i] \notin SpaceChars }
  IN IF keep = {} THEN << >> ELSE SubSeq(s, SetMin(keep), SetMax(keep))

\* s[:n]
Prefix(s, n) == SubSeq(s, 1, IF Len(s) < n THEN Len(s) ELSE n)

\* s.startswith(p)
StartsWith(s, p) == Len(s) >= Len(p) /\ SubSeq(s, 1, Len(p)) = p

\* the elements of a sequence
Range(s) == { s[i] : i \in 1..Len(s) }

\* first index >= i of s whose character is in (or, with inside = FALSE, not in)
\* the class cls; Len(s) + 1 when there is none
Scan(s, i, cls, inside) ==
  LET hits == { k \in i..Len(s) : (s[k] \in cls) = inside }
  IN IF hits = {} THEN Len(s) + 1 ELSE SetMin(hits)

\* str.split / re.split on the one-character separators in seps, from index from
RECURSIVE SplitFrom(_, _, _)
SplitFrom(s, seps, from) ==
  LET i == Scan(s, from, seps, TRUE)
  IN IF i > Len(s) THEN << SubSeq(s, from, Len(s)) >>
     ELSE << SubSeq(s, from, i - 1) >> \o SplitFrom(s, seps, i + 1)

Split(s, seps) == SplitFrom(s, seps, 1)

\* ' '.join(parts)
RECURSIVE JoinWith(_, _)
JoinWith(parts, sep) ==
  IF parts = << >> THEN << >>
  ELSE IF Len(parts) = 1 THEN parts[1]
  ELSE parts[1] \o sep \o JoinWith(Tail(parts), sep)

\* int(digits) for a sequence of digit characters
RECURSIVE ParseInt(_)
ParseInt(ds) ==
  IF ds = << >> THEN 0
  ELSE 10 * ParseInt(SubSeq(ds, 1, Len(ds) - 1))
       + (CHOOSE d \in 0..9 : DigitSeq[d + 1] = ds[Len(ds)])

(***************************************************************************)
(* Query extractor (services/query_extractor.py)                           *)
(***************************************************************************)
QueryMaxChars == 200

\* re.findall(r'["\']([^"\']+)["\']', text), scanning from index from
RECURSIVE FindQuoted(_, _)
FindQuoted(s, from) ==
  LET i == Scan(s, from, QuoteChars, TRUE)
      j == Scan(s, i + 1, QuoteChars, TRUE)
  IN IF i > Len(s) THEN << >>
     ELSE IF j <= Len(s) /\ j > i + 1
       THEN << SubSeq(s, i + 1, j - 1) >> \o FindQuoted(s, j + 1)
       ELSE FindQuoted(s, i + 1)

\* re.findall(r'#(\w+)', text) and re.findall(r'@(\w+)', text), from index from
RECURSIVE FindTagged(_, _, _)
FindTagged(s, marker, from) ==
  LET i == Scan(s, from, {marker}, TRUE)
      j == Scan(s, i + 1, WordChars, FALSE)
  IN IF i > Len(s) THEN << >>
     ELSE IF j > i + 1
       THEN << SubSeq(s, i + 1, j - 1) >> \o FindTagged(s, marker, j)
       ELSE FindTagged(s, marker, i + 1)

\* \b at index i: exactly one of s[i-1], s[i] is a word character
WordBoundary(s, i) ==
  LET before == i > 1 /\ i - 1 <= Len(s) /\ s[i - 1] \in WordChars
      after  == i >= 1 /\ i <= Len(s) /\ s[i] \in WordChars
  IN before # after

\* [A-Z][a-z]+ at index i: the index after the word, 0 when there is no match
CapWordEnd(s, i) ==
  IF i + 1 <= Len(s) /\ s[i] \in UpperChars /\ s[i + 1] \in LowerChars
    THEN Scan(s, i + 1, LowerChars, FALSE)
    ELSE 0

\* (?:\s+[A-Z][a-z]+)+ from index e, followed by \b: the end index of the last
\* group that ends at a word boundary (best so far when no further group matches)
RECURSIVE CapGroups(_, _, _)
CapGroups(s, e, best) ==
  IF e <= Len(s) /\ s[e] \in SpaceChars
    THEN LET e2 == CapWordEnd(s, Scan(s, e, SpaceChars, FALSE))
         IN IF e2 = 0 THEN best
            ELSE CapGroups(s, e2, IF WordBoundary(s, e2) THEN e2 ELSE best)
    ELSE best

\* the end index of the match of \b([A-Z][a-z]+(?:\s+[A-Z][a-z]+)+)\b at i, or 0
CapPhraseEnd(s, i) ==
  IF ~WordBoundary(s, i) \/ CapWordEnd(s, i) = 0 THEN 0
  ELSE CapGroups(s, CapWordEnd(s, i), 0)

\* re.findall(r'\b([A-Z][a-z]+(?:\s+[A-Z][a-z]+)+)\b', text), from index from
RECURSIVE FindCapPhrases(_, _)
FindCapPhrases(s, from) ==
  LET i == Scan(s, from, UpperChars, TRUE)
      e == CapPhraseEnd(s, i)
  IN IF i > Len(s) THEN << >>
     ELSE IF e = 0 THEN FindCapPhrases(s, i + 1)
     ELSE << SubSeq(s, i, e - 1) >> \o FindCapPhrases(s, e)

\* for phrase in phrases: if len(phrase) > minlen and phrase not in queries: append
RECURSIVE AddPhrases(_, _, _)
AddPhrases(queries, phrases, minlen) ==
  IF phrases = << >> THEN queries
  ELSE AddPhrases(
         IF Len(Head(phrases)) > minlen /\ Head(phrases) \notin Range(queries)
           THEN Append(queries, Head(phrases)) ELSE queries,
         Tail(phrases), minlen)

\* the final loop: keep q when q.lower().strip() is new and longer than 3
\* a deduplication that compares the queries without lowercasing them
RECURSIVE DedupQueriesCaseSensitive(_, _)
DedupQueriesCaseSensitive(queries, seen) ==
  IF queries = << >> THEN << >>
  ELSE LET q_key == Strip(Head(queries))
       IN IF q_key \notin seen /\ Len(q_key) > 3
            THEN << Head(queries) >>
                   \o DedupQueriesCaseSensitive(Tail(queries), seen \cup {q_key})
            ELSE DedupQueriesCaseSensitive(Tail(queries), seen)

\* a deduplication that puts each new query in front of the ones kept so far
RECURSIVE DedupQueriesNewestFirst(_, _)
DedupQueriesNewestFirst(queries, seen) ==
  IF queries = << >> THEN << >>
  ELSE LET q_lower == Strip(Lower(Head(queries)))
       IN IF q_lower \notin seen /\ Len(q_lower) > 3
            THEN DedupQueriesNewestFirst(Tail(queries), seen \cup {q_lower})
                   \o << Head(queries) >>
            ELSE DedupQueriesNewestFirst(Tail(queries), seen)

RECURSIVE DedupQueries(_, _)
DedupQueries(queries, seen) ==
  IF queries = << >> THEN << >>
  ELSE LET q_lower == Strip(Lower(Head(queries)))
       IN IF q_lower \notin seen /\ Len(q_lower) > 3
            THEN << Head(queries) >> \o DedupQueries(Tail(queries), seen \cup {q_lower})
            ELSE DedupQueries(Tail(queries), seen)

SocialMediaSuffix == << " ","s","o","c","i","a","l"," ","m","e","d","i","a" >>

extract_search_queries(post_text) ==
  LET text == Strip(post_text)
      first_sentence == Split(text, {".", "!", "?"})[1]
      q1 == IF Len(text) <= QueryMaxChars THEN << text >>
            ELSE IF Len(first_sentence) <= QueryMaxChars THEN << first_sentence >>
            ELSE << Prefix(text, QueryMaxChars) >>
      q2 == AddPhrases(q1, Prefix(FindQuoted(text, 1), 2), 3)
      hashtags == FindTagged(text, "#", 1)
      hashtag_query == JoinWith(Prefix(hashtags, 3), << " " >>)
      q3 == IF hashtags # << >> /\ hashtag_query \notin Range(q2)
              THEN Append(q2, hashtag_query) ELSE q2
      q4 == AddPhrases(q3, Prefix(FindCapPhrases(text, 1), 2), 5)
      mentions == Prefix(FindTagged(text, "@", 1), 1)
      q5 == IF mentions # << >> /\ Len(mentions[1]) > 3
              THEN Append(q4, mentions[1] \o SocialMediaSuffix) ELSE q4
      unique_queries == DedupQueries(q5, {})
  IN IF unique_queries # << >> THEN Prefix(unique_queries, 3)
     ELSE << Prefix(text, QueryMaxChars) >>

(***************************************************************************)
(* Data model (models/schemas.py is not part of the sources; the records   *)
(* below carry the fields the services read and write)                     *)
(***************************************************************************)
\* A snippet is a text of some length; slicing keeps the text and cuts the length.
Snippet(body, len) == [body |-> body, len |-> len]
SnippetTake(sn, n) == [body |-> sn.body, len |-> IF sn.len < n THEN sn.len ELSE n]

SearchResult(title, url, snippet, score) ==
  [title |-> title, url |-> url, snippet |-> snippet, score |-> score]

\* Source(id=..., title=..., url=..., snippet=...)
Source(id, title, url, snippet) ==
  [kind |-> "Source", id |-> id, title |-> title, url |-> url, snippet |-> snippet]

\* Source.model_dump(): the plain dict of the fields
model_dump(src) ==
  [id |-> src.id, title |-> src.title, url |-> src.url, snippet |-> src.snippet]

\* Source(**d)
SourceFromDict(d) == Source(d.id, d.title, d.url, d.snippet)

ExplainResponse(bullets, sources, cached) ==
  [bullets |-> bullets, sources |-> sources, cached |-> cached]

(***************************************************************************)
(* Response parser (PostExplainer._parse_bullets, _build_sources)          *)
(***************************************************************************)
BulletChar == "<U+2022>"
MaxBullets == 5
MinBulletChars == 10
TopSources == 3
SourceSnippetChars == 200

\* re.sub(r'^[•\-\*]\s*', '', line)
StripBulletMarker(line) ==
  IF line # << >> /\ line[1] \in {BulletChar, "-", "*"}
    THEN SubSeq(line, Scan(line, 2, SpaceChars, FALSE), Len(line))
    ELSE line

\* re.sub(r'^\d+[\.\)]\s*', '', line)
StripNumberMarker(line) ==
  LET d == Scan(line, 1, DigitChars, FALSE)
  IN IF d > 1 /\ d <= Len(line) /\ line[d] \in {".", ")"}
       THEN SubSeq(line, Scan(line, d + 1, SpaceChars, FALSE), Len(line))
       ELSE line

\* a loop that keeps the lines of MinBulletChars characters too
RECURSIVE CleanLinesKeepsTen(_)
CleanLinesKeepsTen(lines) ==
  IF lines = << >> THEN << >>
  ELSE LET line    == Strip(Head(lines))
           cleaned == StripNumberMarker(StripBulletMarker(line))
       IN IF line # << >> /\ cleaned # << >> /\ Len(cleaned) >= MinBulletChars
            THEN << cleaned >> \o CleanLinesKeepsTen(Tail(lines))
            ELSE CleanLinesKeepsTen(Tail(lines))

\* the loop of _parse_bullets over the lines
RECURSIVE CleanLines(_)
CleanLines(lines) ==
  IF lines = << >> THEN << >>
  ELSE LET line    == Strip(Head(lines))
           cleaned == StripNumberMarker(StripBulletMarker(line))
       IN IF line # << >> /\ cleaned # << >> /\ Len(cleaned) > MinBulletChars
            THEN << cleaned >> \o CleanLines(Tail(lines))
            ELSE CleanLines(Tail(lines))

\* a parser that does not cut the list of bullets
parse_bullets_uncut(raw_response) ==
  LET bullets == CleanLines(Split(Strip(raw_response), {"\n"}))
  IN IF bullets = << >> /\ Strip(raw_response) # << >>
       THEN << Strip(raw_response) >> ELSE bullets

parse_bullets(raw_response) ==
  LET bullets == CleanLines(Split(Strip(raw_response), {"\n"}))
  IN Prefix(IF bullets = << >> /\ Strip(raw_response) # << >>
              THEN << Strip(raw_response) >> ELSE bullets,
            MaxBullets)

\* set(int(m) for m in re.findall(r'\[(\d+)\]', response)), from index from
RECURSIVE Citations(_, _)
Citations(s, from) ==
  LET i == Scan(s, from, {"["}, TRUE)
      j == Scan(s, i + 1, DigitChars, FALSE)
  IN IF i > Len(s) THEN {}
     ELSE IF j > i + 1 /\ j <= Len(s) /\ s[j] = "]"
       THEN {ParseInt(SubSeq(s, i + 1, j - 1))} \cup Citations(s, j + 1)
       ELSE Citations(s, i + 1)

\* result.snippet[:n] if result.snippet else None
SnippetOrNone(sn, n) == IF sn.len = 0 THEN None ELSE SnippetTake(sn, n)

\* a filter that keeps the cited results only
SourceIndicesCitedOnly(n, citations) == { i \in 1..n : i \in citations }

\* the indices _build_sources keeps
SourceIndices(n, citations) == { i \in 1..n : i \in citations \/ i <= TopSources }

\* the k-th smallest element of a finite set of integers
RECURSIVE Nth(_, _)
Nth(S, k) == IF k = 1 THEN SetMin(S) ELSE Nth(S \ {SetMin(S)}, k - 1)

build_sources(search_results, response) ==
  LET keep == SourceIndices(Len(search_results), Citations(response, 1))
  IN [k \in 1..Cardinality(keep) |->
        LET i == Nth(keep, k)
        IN Source(i, search_results[i].title, search_results[i].url,
                  SnippetOrNone(search_results[i].snippet, SourceSnippetChars))]

(***************************************************************************)
(* Prompt builder (prompts.py)                                             *)
(***************************************************************************)
NoResultsMarker == [text |-> "No relevant search results found.", parts |-> << >>]

\* a context block numbered from 0
build_explanation_prompt_from_zero(post_text, search_results) ==
  LET context_parts ==
        [i \in 1..Len(search_results) |->
           [n |-> i - 1, title |-> search_results[i].title,
            url |-> search_results[i].url,
            content |-> search_results[i].snippet]]
  IN [post_text |-> post_text,
      search_context |->
        IF context_parts # << >>
          THEN [text |-> "joined", parts |-> context_parts]
          ELSE NoResultsMarker]

\* The fixed template with its two substitutions: the post text and the context
\* block, "[i] title / URL / Content" for each result in order, or the marker.
build_explanation_prompt(post_text, search_results) ==
  LET context_parts ==
        [i \in 1..Len(search_results) |->
           [n |-> i, title |-> search_results[i].title,
            url |-> search_results[i].url,
            content |-> search_results[i].snippet]]
  IN [post_text |-> post_text,
      search_context |->
        IF context_parts # << >>
          THEN [text |-> "joined", parts |-> context_parts]
          ELSE NoResultsMarker]

(***************************************************************************)
(* Search orchestrator (SearchService.search, after the provider calls)    *)
(***************************************************************************)
\* x.score or 0
ScoreKey(result) == IF result.score = NoneNum THEN 0 ELSE result.score

\* a deduplication that keeps the last result of every URL
RECURSIVE DedupByUrlKeepLast(_, _)
DedupByUrlKeepLast(all_results, seen_urls) ==
  IF all_results = << >> THEN << >>
  ELSE IF \E i \in 2..Len(all_results) : all_results[i].url = Head(all_results).url
    THEN DedupByUrlKeepLast(Tail(all_results), seen_urls)
    ELSE << Head(all_results) >> \o DedupByUrlKeepLast(Tail(all_results), seen_urls)

\* the deduplication loop: keep the first result of every URL
RECURSIVE DedupByUrl(_, _)
DedupByUrl(all_results, seen_urls) ==
  IF all_results = << >> THEN << >>
  ELSE IF Head(all_results).url \in seen_urls
    THEN DedupByUrl(Tail(all_results), seen_urls)
    ELSE << Head(all_results) >>
         \o DedupByUrl(Tail(all_results), seen_urls \cup {Head(all_results).url})

\* a sort that puts a result in front of the earlier results of the same score
InsertByScoreBeforeTies(sorted, x) ==
  LET behind == { i \in 1..Len(sorted) : ScoreKey(sorted[i]) > ScoreKey(x) }
      n == IF behind = {} THEN 0 ELSE SetMax(behind)
  IN SubSeq(sorted, 1, n) \o << x >> \o SubSeq(sorted, n + 1, Len(sorted))

\* list.sort(key=score or 0, reverse=True): stable, so a result goes behind every
\* earlier result whose key is at least its own
InsertByScore(sorted, x) ==
  LET behind == { i \in 1..Len(sorted) : ScoreKey(sorted[i]) >= ScoreKey(x) }
      n == IF behind = {} THEN 0 ELSE SetMax(behind)
  IN SubSeq(sorted, 1, n) \o << x >> \o SubSeq(sorted, n + 1, Len(sorted))

RECURSIVE SortByScore(_)
SortByScore(results) ==
  IF results = << >> THEN << >>
  ELSE InsertByScore(SortByScore(SubSeq(results, 1, Len(results) - 1)),
                     results[Len(results)])

\* a search that truncates the list before it sorts it
FinishSearchCutFirst(all_results, max_search_results) ==
  SortByScore(Prefix(DedupByUrl(all_results, {}), max_search_results))

\* lines 175-187 of search(): deduplicate, sort, truncate
FinishSearch(all_results, max_search_results) ==
  Prefix(SortByScore(DedupByUrl(all_results, {})), max_search_results)

(***************************************************************************)
(* Cache (CacheService)                                                    *)
(***************************************************************************)
\* sha256(...).hexdigest()[:16], taken to be free of collisions: the digest stands
\* for the text it was computed from
Digest(normalized) == normalized

\* _generate_key
generate_key(text) == << "explain:" >> \o Digest(Strip(Lower(text)))

\* datetime.now() - timestamp > self.ttl
\* an expiry test that already fails at an age of exactly the TTL
ExpiredAtTtl(timestamp, now_, ttl) == now_ - timestamp >= ttl

Expired(timestamp, now_, ttl) == now_ - timestamp > ttl

\* a get that reports an expired entry as absent and leaves it in the store
CacheGetKeepsStale(store, text, now_, ttl) ==
  LET key == generate_key(text)
  IN IF key \notin DOMAIN store \/ Expired(store[key].timestamp, now_, ttl)
       THEN [value |-> None, store |-> store]
     ELSE [value |-> store[key].value, store |-> store]

\* CacheService.get: the value returned and the store afterwards
CacheGet(store, text, now_, ttl) ==
  LET key == generate_key(text)
  IN IF key \notin DOMAIN store
       THEN [value |-> None, store |-> store]
     ELSE IF Expired(store[key].timestamp, now_, ttl)
       THEN [value |-> None,
             store |-> [k \in DOMAIN store \ {key} |-> store[k]]]
     ELSE [value |-> store[key].value, store |-> store]

\* a set that keeps the entry a key already has
CacheSetFirstWins(store, text, value, now_) ==
  LET key == generate_key(text)
  IN IF key \in DOMAIN store THEN store
     ELSE [k \in DOMAIN store \cup {key} |->
             IF k = key THEN [value |-> value, timestamp |-> now_] ELSE store[k]]

\* a set that replaces the value of an entry and keeps its timestamp
CacheSetKeepsTimestamp(store, text, value, now_) ==
  LET key == generate_key(text)
  IN [k \in DOMAIN store \cup {key} |->
        IF k = key
          THEN [value |-> value,
                timestamp |-> IF key \in DOMAIN store THEN store[key].timestamp
                              ELSE now_]
          ELSE store[k]]

\* CacheService.set
CacheSet(store, text, value, now_) ==
  LET key == generate_key(text)
  IN [k \in DOMAIN store \cup {key} |->
        IF k = key THEN [value |-> value, timestamp |-> now_] ELSE store[k]]

\* CacheService.clear
CacheClear(store) == << >>

\* a sweep that also removes the entries whose age equals the TTL
CacheCleanupAtTtl(store, now_, ttl) ==
  LET expired_keys == { k \in DOMAIN store : now_ - store[k].timestamp >= ttl }
  IN [store |-> [k \in DOMAIN store \ expired_keys |-> store[k]],
      removed |-> Cardinality(expired_keys)]

\* CacheService.cleanup_expired: the store afterwards and the number removed
CacheCleanup(store, now_, ttl) ==
  LET expired_keys == { k \in DOMAIN store : Expired(store[k].timestamp, now_, ttl) }
  IN [store |-> [k \in DOMAIN store \ expired_keys |-> store[k]],
      removed |-> Cardinality(expired_keys)]

(***************************************************************************)
(* Image processor (ImageProcessor)                                        *)
(***************************************************************************)
MAX_IMAGE_SIZE == 20 * 1024 * 1024

\* What the GET of the image can come to: an exception of the client (HTTP error
\* status, timeout), or a response with a content type and a body of some size.
ImageFetch(status, is_image, size) ==
  [status |-> status, is_image |-> is_image, size |-> size]

\* what a call can come to: an exception with its message, or a value
Raised(message) == [raised |-> TRUE, message |-> message, value |-> None]
Returned(value) == [raised |-> FALSE, message |-> NoneStr, value |-> value]

\* download_image: the bytes (their number stands for them) or None; every
\* exception is caught and logged
\* a download without the except clause: the HTTP error of raise_for_status and
\* the timeout of the GET leave the coroutine
download_image_unguarded(fetch) ==
  IF fetch.status # "ok" THEN Raised(<< "h", "t", "t", "p" >>)
  ELSE IF ~fetch.is_image THEN Returned(NoneNum)
  ELSE IF fetch.size > MAX_IMAGE_SIZE THEN Returned(NoneNum)
  ELSE Returned(fetch.size)

download_image(fetch) ==
  IF fetch.status # "ok" THEN Returned(NoneNum)
  ELSE IF ~fetch.is_image THEN Returned(NoneNum)
  ELSE IF fetch.size > MAX_IMAGE_SIZE THEN Returned(NoneNum)
  ELSE Returned(fetch.size)

\* Path(url.split('?')[0]).suffix.lower()
UrlSuffix(url) ==
  LET path  == Split(url, {"?"})[1]
      parts == Split(path, {"/"})
      name  == parts[Len(parts)]
      dots  == { i \in 1..Len(name) : name[i] = "." }
  IN IF dots = {} \/ SetMax(dots) = 1 \/ SetMax(dots) = Len(name) THEN << >>
     ELSE Lower(SubSeq(name, SetMax(dots), Len(name)))

\* get_image_media_type
get_image_media_type(url) ==
  LET ext == UrlSuffix(url)
  IN IF ext \in { <<".","j","p","g">>, <<".","j","p","e","g">> } THEN "image/jpeg"
     ELSE IF ext = <<".","p","n","g">> THEN "image/png"
     ELSE IF ext = <<".","g","i","f">> THEN "image/gif"
     ELSE IF ext = <<".","w","e","b","p">> THEN "image/webp"
     ELSE "image/jpeg"

\* prepare_image_for_vision: the payload, or None when the download gave nothing
\* (None, or an empty body)
prepare_image_for_vision(url, fetch) ==
  LET image_bytes == download_image(fetch)
  IN IF image_bytes.raised THEN image_bytes
     ELSE IF image_bytes.value = NoneNum \/ image_bytes.value = 0
       THEN Returned(None)
     ELSE Returned([type |-> "image_url",
                    image_url |-> [media_type |-> get_image_media_type(url),
                                   base64 |-> image_bytes.value,
                                   detail |-> "auto"]])

(***************************************************************************)
(* LLM service (LLMService)                                                *)
(***************************************************************************)
ErrorMarker == << "E","r","r","o","r",":" >>

\* f"Error: {str(e)}"
ErrorString(message) == ErrorMarker \o << " " >> \o message

\* LLMService.__init__ and get_available_providers: OpenAI always, Anthropic when
\* a key is configured and the package could be imported
get_available_providers(cfg) ==
  << "openai" >> \o
  (IF cfg.anthropic_api_key /\ cfg.anthropic_installed THEN << "anthropic" >> ELSE << >>)

\* a generate call made outside the try block
ProviderEntryUncaught(outcome) == outcome

\* one entry of LLMService.compare_providers' result: the raw text, or the error
\* string of the exception caught
ProviderEntry(outcome) ==
  IF outcome.raised THEN Returned(ErrorString(outcome.message)) ELSE outcome

\* one entry of PostExplainer.compare_providers' "providers" mapping
CompareEntry(raw_response, search_results) ==
  IF StartsWith(raw_response, ErrorMarker)
    THEN [error |-> raw_response, bullets |-> << >>, sources |-> << >>]
    ELSE LET sources == build_sources(search_results, raw_response)
         IN [bullets |-> parse_bullets(raw_response),
             sources |-> [i \in 1..Len(sources) |-> model_dump(sources[i])]]

\* a default that prefers the secondary provider when there is one
DefaultProviderSecondary(cfg) ==
  IF cfg.anthropic_api_key /\ cfg.anthropic_installed THEN "anthropic" ELSE "openai"

\* LLMService.generate and LLMService.stream go to self.provider, which
\* __init__ sets to the OpenAI provider
DefaultProvider(cfg) == "openai"

(***************************************************************************)
(* Streaming: the providers' stream methods, explain_stream and the        *)
(* event generator of the /explain/stream route                            *)
(***************************************************************************)
\* s holds sub as a substring
Contains(s, sub) ==
  \E i \in 0..(Len(s) - Len(sub)) : SubSeq(s, i + 1, i + Len(sub)) = sub

\* AnthropicProvider.MODEL_FALLBACKS
MODEL_FALLBACKS ==
  << "claude-3-5-sonnet-20241022", "claude-3-5-sonnet-20240620",
     "claude-3-opus-20240229", "claude-3-sonnet-20240229",
     "claude-3-haiku-20240307" >>

\* not ("404" not in str(e) and "not_found" not in str(e).lower())
IsNotFound(message) ==
  \/ Contains(message, << "4", "0", "4" >>)
  \/ Contains(Lower(message), << "n", "o", "t", "_", "f", "o", "u", "n", "d" >>)

\* "Failed to stream with any Claude model: "
StreamFailedPrefix ==
  << "F","a","i","l","e","d"," ","t","o"," ","s","t","r","e","a","m"," ",
     "w","i","t","h"," ","a","n","y"," ","C","l","a","u","d","e"," ",
     "m","o","d","e","l",":"," " >>
\* "Anthropic provider not available"
NotAvailableMessage ==
  << "A","n","t","h","r","o","p","i","c"," ","p","r","o","v","i","d","e","r"," ",
     "n","o","t"," ","a","v","a","i","l","a","b","l","e" >>

\* what the provider's stream hands over when the next item is awaited: a text,
\* the end of the stream, or an exception
Chunk(text) == [kind |-> "chunk", text |-> text]
EndOfStream == [kind |-> "end", text |-> NoneStr]
Failure(message) == [kind |-> "raise", text |-> message]

\* what a stream method does next
Step(do, text) == [do |-> do, text |-> text]

\* an except clause that goes on to the next model after any error
AnthropicExceptRetriesAll(attempt, message) ==
  IF attempt < Len(MODEL_FALLBACKS) THEN Step("retry", message)
  ELSE Step("raise", StreamFailedPrefix \o message)

\* the except clause of the loop over the models in AnthropicProvider.stream: the
\* next model after a "not found" error, the exception itself after any other
\* one, a RuntimeError when the last model was not found
AnthropicExcept(attempt, message) ==
  IF ~IsNotFound(message) THEN Step("raise", message)
  ELSE IF attempt < Len(MODEL_FALLBACKS) THEN Step("retry", message)
  ELSE Step("raise", StreamFailedPrefix \o message)

\* "Failed to generate with any Claude model: "
GenerateFailedPrefix ==
  << "F","a","i","l","e","d"," ","t","o"," ","g","e","n","e","r","a","t","e"," ",
     "w","i","t","h"," ","a","n","y"," ","C","l","a","u","d","e"," ",
     "m","o","d","e","l",":"," " >>

\* an except clause whose final error does not carry the last attempt's error
AnthropicGenerateExceptBareError(attempt, message) ==
  IF ~IsNotFound(message) THEN Step("raise", message)
  ELSE IF attempt < Len(MODEL_FALLBACKS) THEN Step("retry", message)
  ELSE Step("raise", GenerateFailedPrefix)

\* the except clause of the loop over the models in AnthropicProvider.generate
AnthropicGenerateExcept(attempt, message) ==
  IF ~IsNotFound(message) THEN Step("raise", message)
  ELSE IF attempt < Len(MODEL_FALLBACKS) THEN Step("retry", message)
  ELSE Step("raise", GenerateFailedPrefix \o message)

\* history: an attempt with the model at this index of the list has ended
Tried(attempt, raised, message) ==
  [model |-> MODEL_FALLBACKS[attempt], raised |-> raised, message |-> message]

\* the call that opens the stream completes: client.chat.completions.create(
\* stream=True) of OpenAIProvider.stream, the entry of
\* "async with client.messages.stream(...)" of AnthropicProvider.stream
OpenStep(provider_name, attempt, outcome) ==
  IF ~outcome.raised THEN Step("opened", NoneStr)
  ELSE IF provider_name = "anthropic" THEN AnthropicExcept(attempt, outcome.message)
  ELSE Step("raise", outcome.message)

\* the next item of the open stream arrives: OpenAIProvider.stream yields the
\* texts that are not empty, AnthropicProvider.stream yields every text
NextStep(provider_name, attempt, item) ==
  IF item.kind = "chunk"
    THEN IF provider_name = "openai" /\ item.text = << >>
           THEN Step("skip", item.text)
           ELSE Step("yield", item.text)
  ELSE IF item.kind = "end" THEN Step("end", NoneStr)
  ELSE IF provider_name = "anthropic" THEN AnthropicExcept(attempt, item.text)
  ELSE Step("raise", item.text)

\* The stream handle: "none" before the stream is opened, "open" while it is
\* iterated, "ended" when its iteration ended of itself (exhausted, or raising),
\* "closed" when the code closed it.  AnthropicProvider.stream holds the handle
\* in an "async with", which closes it on every way out of the block;
\* OpenAIProvider.stream has no statement that closes its handle.
HandleAfterItem(provider_name, handle, item) ==
  IF item.kind = "chunk" THEN handle
  ELSE IF provider_name = "anthropic" THEN "closed"
  ELSE "ended"

\* the consumer stops consuming: the generators are closed or cancelled at the
\* point where they are suspended
HandleAfterClose(provider_name, handle) ==
  IF handle = "open" /\ provider_name = "anthropic" THEN "closed" ELSE handle

\* a list of the sources that _build_sources always keeps
StreamSourcesTopOnly(search_results) ==
  [i \in 1..SetMin({ Len(search_results), TopSources }) |->
     [id |-> i, title |-> search_results[i].title, url |-> search_results[i].url,
      snippet |-> SnippetOrNone(search_results[i].snippet, SourceSnippetChars)]]

\* the list explain_stream yields first
StreamSources(search_results) ==
  [i \in 1..Len(search_results) |->
     [id |-> i, title |-> search_results[i].title, url |-> search_results[i].url,
      snippet |-> SnippetOrNone(search_results[i].snippet, SourceSnippetChars)]]

\* event_generator: the events sent for one item of explain_stream; json.dumps
\* is kept as the structure it encodes
SseEvents(item) ==
  IF item.type = "sources" THEN << [event |-> "sources", data |-> item.data] >>
  ELSE IF item.type = "chunk"
    THEN << [event |-> "chunk", data |-> [text |-> item.data]] >>
  ELSE << >>

DoneEvent == [event |-> "done", data |-> [status |-> "complete"]]

\* the except clause of event_generator
ErrorEvent(message) == [event |-> "error", data |-> [error |-> message]]

(***************************************************************************)
(* Bounds and the inputs explored                                          *)
(***************************************************************************)
MaxTime == 2
CacheTtl == 1
MaxChunks == 2
\* the texts given to the query extractor are made of at most MaxTokens pieces
\* the model texts given to _build_sources hold at most MaxMarks pieces
MaxMarks == 2
\* search is called with at most MaxQueries queries
MaxQueries == 3
MaxTokens == 3
\* the model texts given to _parse_bullets end with at most MaxLines free lines
MaxLines == 2

\* the requests, in the order in which they are received
RequestOrder == << "r1", "r2" >>
Requests == Range(RequestOrder)

PostTexts == { << "a" >>, << " ", "A" >>, << "#", "a", "b", "c", "d" >> }
ImageUrls == { NoneStr, << "u" >> }

ImageFetches ==
  { ImageFetch("http_error", FALSE, 0), ImageFetch("timeout", FALSE, 0),
    ImageFetch("ok", FALSE, 1), ImageFetch("ok", TRUE, 0),
    ImageFetch("ok", TRUE, MAX_IMAGE_SIZE + 1), ImageFetch("ok", TRUE, 1) }

PrimaryReply ==
  << SearchResult("t1", "u1", Snippet("s1", 500), 1),
     SearchResult("t2", "u2", Snippet("s2", 0), NoneNum),
     SearchResult("t3", "u3", Snippet("s3", 10), 2),
     SearchResult("t4", "u4", Snippet("s4", 300), 1) >>
FallbackReply ==
  << SearchResult("t2", "u2", Snippet("s2", 20), NoneNum),
     SearchResult("t5", "u5", Snippet("s5", 20), NoneNum) >>

PrimaryOutcomes  == { Raised(<< "5", "0", "3" >>), Returned(PrimaryReply) }
FallbackOutcomes == { Raised(<< "4", "2", "9" >>), Returned(FallbackReply) }

\* A second reply of the primary provider: its first result has the URL of the
\* first result of PrimaryReply and a higher score, its last result a score of 0.
SecondReply ==
  << SearchResult("t6", "u1", Snippet("s6", 10), 2),
     SearchResult("t7", "u6", Snippet("s7", 10), 1),
     SearchResult("t8", "u7", Snippet("s8", 10), 0) >>

\* _build_sources called on its own: the results are the first n of a list of
\* seven, the model text is made of at most MaxMarks pieces, each a citation
\* marker or a text that is none ("[a]", "[ 5]", a bare digit, "[]")
SevenResults == PrimaryReply \o SecondReply
Mark(text, cited) == [text |-> text, cited |-> cited]
Marks ==
  { Mark(<< "[", "2", "]" >>, {2}), Mark(<< "[", "5", "]" >>, {5}),
    Mark(<< "[", "0", "]" >>, {0}), Mark(<< "[", "0", "4", "]" >>, {4}),
    Mark(<< "[", "1", "2", "]" >>, {12}), Mark(<< "[", "7", "]", "." >>, {7}),
    Mark(<< "[", "a", "]" >>, {}), Mark(<< "[", " ", "5", "]" >>, {}),
    Mark(<< " ", "6", " " >>, {}), Mark(<< "[", "]" >>, {}),
    Mark(<< "x", "\n" >>, {}) }
MarkLists == UNION { [1..n -> Marks] : n \in 0..MaxMarks }
MarkTexts(marks) == JoinWith([k \in 1..Len(marks) |-> marks[k].text], << >>)
MarkCited(marks) == UNION { marks[k].cited : k \in 1..Len(marks) }

\* search called on its own: the lists of queries, the outcomes of the primary
\* provider, among them a reply without results, and the configurations of the
\* fallback provider and of max_search_results
SearchQueryLists ==
  UNION { [1..n -> { << "q" >> }] : n \in 0..MaxQueries }
SearchOutcomes ==
  PrimaryOutcomes \cup { Returned(SecondReply), Returned(<< >>) }
SearchSettings ==
  [ brave_api_key : BOOLEAN, anthropic_api_key : {FALSE},
    anthropic_installed : {TRUE}, max_search_results : {1, 3, 8},
    cache_ttl : {CacheTtl} ]

\* model replies: empty, an error-like text, a bullet citing the fourth result
CitingReply ==
  << BulletChar, " ", "a", "b", "c", "d", "e", "f", "g", "h", "i", "j", "k",
     " ", "[", "4", "]" >>
ErrorLikeReply == ErrorMarker \o << " ", "n", "o" >>
LLMOutcomes ==
  { Raised(<< "b", "o", "o", "m" >>), Returned(<< >>), Returned(ErrorLikeReply),
    Returned(CitingReply) }

\* further replies to explain: six numbered lines, a text too short to be a
\* bullet, and a text of whitespace only
SixLineReply ==
  JoinWith([k \in 1..(MaxBullets + 1) |->
              << DigitSeq[k + 1], ".", " ", "a", "b", "c", "d", "e", "f", "g", "h",
                 "i", "j", DigitSeq[k + 1] >>],
           << "\n" >>)
ShortReply == << " ", "o", "k", "\n" >>
BlankReply == << " ", "\n" >>
\* a bullet whose citation markers are 0 and a number above every result count
OutOfRangeReply ==
  << BulletChar, " ", "a", "b", "c", "d", "e", "f", "g", "h", "i", "j", "k",
     " ", "[", "0", "]", "[", "9", "]" >>
ExplainOutcomes ==
  LLMOutcomes \cup
  { Returned(SixLineReply), Returned(ShortReply), Returned(BlankReply),
    Returned(OutOfRangeReply) }

\* what the call that opens a stream, and the open stream, can come to
NotFoundMessage == << "4", "0", "4" >>
StreamOpenOutcomes ==
  { Raised(<< "b", "o", "o", "m" >>), Raised(NotFoundMessage), Returned(None) }
StreamItems ==
  { Chunk(<< "h", "i" >>), Chunk(<< >>), EndOfStream,
    Failure(<< "b", "o", "o", "m" >>), Failure(NotFoundMessage) }

\* the configurations: the package matters only when a key is configured
Settings ==
  { cfg \in [ brave_api_key : BOOLEAN, anthropic_api_key : BOOLEAN,
              anthropic_installed : BOOLEAN, max_search_results : {8},
              cache_ttl : {CacheTtl} ] :
      cfg.anthropic_api_key \/ cfg.anthropic_installed }

\* AnthropicProvider called on its own: the key is set, the package installed
\* or not; an attempt of generate raises (a "not found" error or another one)
\* or returns a text
ProviderSettings ==
  { cfg \in Settings : cfg.anthropic_api_key /\ ~cfg.brave_api_key }
AttemptOutcomes ==
  { Raised(<< "b", "o", "o", "m" >>), Raised(<< "4", "0", "4" >>),
    Returned(<< "o", "k" >>), Returned(<< "o", "k", "2" >>) }
\* the attempt with the last model of the list can also fail with a "not found"
\* error of another wording
AttemptOutcomesAt(attempt) ==
  IF attempt = Len(MODEL_FALLBACKS)
    THEN { Raised(<< "b", "o", "o", "m" >>), Raised(<< "4", "0", "4" >>),
           Raised(<< "N", "o", "t", "_", "F", "o", "u", "n", "d" >>),
           Returned(<< "o", "k" >>), Returned(<< "o", "k", "2" >>) }
    ELSE AttemptOutcomes
ProviderItems ==
  { Chunk(<< "h", "i" >>), EndOfStream, Failure(<< "b", "o", "o", "m" >>),
    Failure(<< "4", "0", "4" >>) }

\* The two-request specification explores a part of the above: one post text,
\* the configurations with both optional providers or neither, and the model
\* replies that differ in bullets and citations.
SharedTexts    == { << "a" >> }
SharedSettings == { cfg \in Settings :
                      /\ cfg.anthropic_installed
                      /\ cfg.brave_api_key = cfg.anthropic_api_key }
SharedExplainOutcomes == LLMOutcomes \ { Returned(ErrorLikeReply) }
SharedCompareOutcomes == LLMOutcomes \ { Returned(<< >>), Returned(ErrorLikeReply) }
SharedImageFetches == { ImageFetch("timeout", FALSE, 0), ImageFetch("ok", TRUE, 1) }

\* The specification of two requests through the /explain route (use_cache is
\* left at its default, true) explores texts that differ in case and in leading
\* and trailing whitespace, and two messages of a failing LLM call.
PairTexts ==
  { << "a" >>, << "A" >>, << " ", "a" >>, << "a", " " >>, << "b" >> }
PairSettings ==
  { cfg \in Settings : ~cfg.brave_api_key /\ ~cfg.anthropic_api_key }
PairOutcomes ==
  { Raised(<< "b", "o", "o", "m" >>), Raised(<< "o", "o", "p", "s" >>),
    Returned(CitingReply) }
PairImageFetches == { ImageFetch("ok", TRUE, 1) }

\* The specification of the cache service explores keys that differ in case and
\* in surrounding whitespace, and two values.
\* pieces of post texts: a word in two cases, quoted, as hashtag and as mention,
\* a capitalised phrase, a blank and a full stop
WordToken == << "a", "b", "c", "d" >>
Upper4 == << "A", "B", "C", "D" >>
ExtractTokens ==
  { WordToken, Upper4,
    << "\"" >> \o WordToken \o << "\"" >>,
    << "\"" >> \o Upper4 \o << "\"" >>,
    << "#" >> \o Upper4,
    << "@" >> \o WordToken,
    << "A", "b", "c", "d", " ", "E", "f", "g", "h" >>,
    << " " >>, << "." >> }
\* texts longer than QueryMaxChars, without and with a short first sentence
LongText == [i \in 1..(QueryMaxChars + 1) |-> "a"]
LongTexts == { LongText, WordToken \o << "." >> \o LongText }
ExtractInputs ==
  LongTexts \cup
  { JoinWith(pieces, << >>) :
      pieces \in UNION { [1..n -> ExtractTokens] : n \in 0..MaxTokens } }

CacheTexts == { << "a" >>, << " ", "A", " " >>, << "b" >> }
CacheValues ==
  { [bullets |-> << << "v", "1" >> >>, sources |-> << >>],
    [bullets |-> << << "v", "2" >> >>, sources |-> << >>] }

(***************************************************************************)
(* State                                                                   *)
(***************************************************************************)
VARIABLES
  settings,    \* the configuration read at construction (config.Settings)
  cache,       \* CacheService._cache: key -> [value, timestamp]
  now,         \* datetime.now(), in ticks
  req,         \* the requests: request id -> its frame
  last_store,  \* history: cache key -> the latest explain response stored under it
  model        \* AnthropicProvider.model: the model of the latest successful attempt

vars == << settings, cache, now, req, last_store, model >>

ZeroCalls ==
  [image |-> 0, primary |-> 0, fallback |-> 0, openai |-> 0, anthropic |-> 0,
   primary_failed |-> 0, fallback_failed |-> 0]

NoFetch == ImageFetch("none", FALSE, 0)

\* the frame of a request that has not arrived
IdleReq ==
  [op |-> "none", pc |-> "idle", post_text |-> NoneStr, image_url |-> NoneStr,
   use_cache |-> FALSE, image_data |-> None,
   queries |-> << >>, qi |-> 0, all_results |-> << >>, search_results |-> << >>,
   search_log |-> << >>, raw_response |-> NoneStr, cited |-> {},
   attempts |-> << >>, model_at_start |-> "none", bodies |-> << >>,
   prompt |-> None, sent_image |-> None, todo |-> << >>,
   provider_responses |-> << >>, result |-> None,
   error |-> NoneStr, raised_by |-> "none",
   \* the response of the route to an exception of explain / compare_providers
   http |-> None,
   \* history: the calls made for this request and what they came to
   calls |-> ZeroCalls, fetch |-> NoFetch, outcomes |-> << >>,
   \* history: what the cache held for this request's key when it arrived, and
   \* what the request's own steps did to the cache
   live_at_start |-> FALSE, stale_at_start |-> FALSE, entry_at_start |-> None,
   fresh_at_start |-> FALSE, origin |-> None,
   cache_written |-> FALSE, cache_evicted |-> {},
   \* streaming: the events delivered to the consumer, the provider's stream
   \* handle, the model being attempted, and (history) the texts the model
   \* produced and whether the consumer has stopped consuming
   events |-> << >>, handle |-> "none", attempt |-> 0,
   produced |-> << >>, closed |-> FALSE]

\* cache_key = f"{post_text}:{image_url or ''}"
CacheKeyText(post_text, image_url) ==
  post_text \o << ":" >> \o (IF image_url = NoneStr THEN << >> ELSE image_url)

\* if image_url:
HasImage(image_url) == image_url # NoneStr /\ image_url # << >>

\* a lookup made whatever use_cache says
LookupAlways(use_cache, store, key_text, now_, ttl) ==
  CacheGet(store, key_text, now_, ttl)

\* lines 57-58 of explain: the cache is read only with use_cache
Lookup(use_cache, store, key_text, now_, ttl) ==
  IF use_cache THEN CacheGet(store, key_text, now_, ttl)
  ELSE [value |-> None, store |-> store]

\* if cached: Python truthiness of what CacheService.get returned (None and {} are
\* false, every other dict is true)
\* a test that also asks for bullets
TruthyWithBullets(value) == value # None /\ value.bullets # << >>

Truthy(value) == value # None /\ DOMAIN value # {}

\* the cached response built at lines 60-64 of explain
CachedResponse(cached) ==
  ExplainResponse(cached.bullets,
                  [i \in 1..Len(cached.sources) |-> SourceFromDict(cached.sources[i])],
                  TRUE)

\* the dict stored at lines 103-106 of explain
CacheValue(bullets, sources) ==
  [bullets |-> bullets,
   sources |-> [i \in 1..Len(sources) |-> model_dump(sources[i])]]

\* a store that also records a failed generation, as an empty answer
CacheAfterExplainAnyOutcome(f, outcome, store, now_) ==
  IF f.use_cache
    THEN CacheSet(store, CacheKeyText(f.post_text, f.image_url),
                  IF outcome.raised THEN CacheValue(<< >>, << >>)
                  ELSE CacheValue(parse_bullets(outcome.value),
                                  build_sources(f.search_results, outcome.value)),
                  now_)
    ELSE store

\* lines 86-106 of explain: the store after generate came to outcome; nothing is
\* stored when generate raised or without use_cache
CacheAfterExplain(f, outcome, store, now_) ==
  IF ~outcome.raised /\ f.use_cache
    THEN CacheSet(store, CacheKeyText(f.post_text, f.image_url),
                  CacheValue(parse_bullets(outcome.value),
                             build_sources(f.search_results, outcome.value)),
                  now_)
    ELSE store

\* history: what a step did to the cache
Written(before, after) ==
  \E k \in DOMAIN after : k \notin DOMAIN before \/ after[k] # before[k]
Evicted(before, after) == { k \in DOMAIN before : k \notin DOMAIN after }

Bump(calls, what) == [calls EXCEPT ![what] = @ + 1]

\* queries = extract_search_queries(post_text); the search loop starts
\* history: a provider's search call for the query at index qi and its outcome
Called(qi, provider, outcome) ==
  [qi |-> qi, provider |-> provider, raised |-> outcome.raised,
   results |-> IF outcome.raised THEN << >> ELSE outcome.value]

BeginSearch(f) ==
  [f EXCEPT !.queries = extract_search_queries(f.post_text), !.qi = 1,
            !.pc = "primary"]

\* a prompt built from the results as they were accumulated, before search()
\* has deduplicated, sorted and cut them
SearchReturnedPromptFromAll(f) ==
  LET search_results == FinishSearch(f.all_results, settings.max_search_results)
  IN IF f.op = "search"
       THEN [f EXCEPT !.search_results = search_results, !.pc = "returned"]
     ELSE IF f.op = "stream"
       THEN [f EXCEPT
               !.search_results = search_results,
               !.events = SseEvents([type |-> "sources",
                                     data |-> StreamSources(search_results)]),
               !.prompt = build_explanation_prompt(f.post_text, search_results),
               !.todo = << DefaultProvider(settings) >>,
               !.attempt = 1,
               !.pc = "open"]
     ELSE
     [f EXCEPT !.search_results = search_results,
               !.prompt = build_explanation_prompt(f.post_text, f.all_results),
               !.sent_image = f.image_data,
               !.todo = IF f.op = "compare" THEN get_available_providers(settings)
                        ELSE << DefaultProvider(settings) >>,
               !.pc = "generate"]

\* search() returns: the prompt is built and generate is called with it and the
\* image payload
SearchReturned(f) ==
  LET search_results == FinishSearch(f.all_results, settings.max_search_results)
  IN IF f.op = "search"
       \* search called on its own: the list is what it returns
       THEN [f EXCEPT !.search_results = search_results, !.pc = "returned"]
     ELSE IF f.op = "stream"
       \* explain_stream: the sources are yielded, then the prompt is built and
       \* llm_service.stream(prompt) is iterated
       THEN [f EXCEPT
               !.search_results = search_results,
               !.events = SseEvents([type |-> "sources",
                                     data |-> StreamSources(search_results)]),
               !.prompt = build_explanation_prompt(f.post_text, search_results),
               !.todo = << DefaultProvider(settings) >>,
               !.attempt = 1,
               !.pc = "open"]
     ELSE
     [f EXCEPT !.search_results = search_results,
               !.prompt = build_explanation_prompt(f.post_text, search_results),
               !.sent_image = f.image_data,
               !.todo = IF f.op = "compare" THEN get_available_providers(settings)
                        ELSE << DefaultProvider(settings) >>,
               !.pc = "generate"]

\* a loop over the queries that ends at the first query that added nothing
AfterQueryStopsWhenEmpty(f) ==
  IF f.qi < Len(f.queries) /\ f.all_results # << >>
    THEN [f EXCEPT !.qi = @ + 1, !.pc = "primary"]
    ELSE SearchReturned(f)

\* the end of one iteration of the loop over the queries
AfterQuery(f) ==
  IF f.qi < Len(f.queries) THEN [f EXCEPT !.qi = @ + 1, !.pc = "primary"]
  ELSE SearchReturned(f)

\* explain_post and compare_providers (routes): except Exception as e: raise
\* HTTPException(status_code=500, detail=str(e)), which FastAPI answers with the
\* detail as the body
RouteError(message) == [status_code |-> 500, body |-> [detail |-> message]]

\* generic_error_handler, registered for the exceptions no route has caught
GenericError ==
  [status_code |-> 500,
   body |-> [error |-> "An unexpected error occurred", type |-> "InternalError"]]

\* an exception leaves the coroutine at the step named; the routes of explain and
\* compare_providers catch it
Raise(f, step, message) ==
  [f EXCEPT !.pc = "raised", !.raised_by = step, !.error = message,
            !.http = IF f.op \in { "explain", "compare" }
                       THEN RouteError(message) ELSE @]

\* r is the next request to arrive
Arrives(r) ==
  /\ req[r].pc = "idle"
  /\ \A i, j \in 1..Len(RequestOrder) :
       i < j /\ RequestOrder[j] = r => req[RequestOrder[i]].pc # "idle"

\* history: what the cache holds for a key as a request arrives
LiveEntry(key) ==
  key \in DOMAIN cache /\ now - cache[key].timestamp <= settings.cache_ttl
StaleEntry(key) ==
  key \in DOMAIN cache /\ now - cache[key].timestamp > settings.cache_ttl
FreshStore(key) ==
  key \in DOMAIN last_store /\ now - last_store[key].at <= settings.cache_ttl

Arrived(op, post_text, image_url, use_cache) ==
  LET key == generate_key(CacheKeyText(post_text, image_url))
  IN [IdleReq EXCEPT
        !.op = op, !.post_text = post_text, !.image_url = image_url,
        !.use_cache = use_cache,
        !.live_at_start = LiveEntry(key),
        !.stale_at_start = StaleEntry(key),
        !.entry_at_start = IF LiveEntry(key) THEN cache[key].value ELSE None,
        !.fresh_at_start = FreshStore(key),
        !.origin = IF FreshStore(key) THEN last_store[key].response ELSE None]

\* AnthropicProvider.__init__: self.model = model or self.MODEL_FALLBACKS[0],
\* None when the package is missing; without a key there is no such provider
InitialModel(cfg) ==
  IF cfg.anthropic_api_key /\ cfg.anthropic_installed THEN MODEL_FALLBACKS[1]
  ELSE "none"

InitWith(configurations) ==
  /\ settings \in configurations
  /\ cache = << >>
  /\ now = 0
  /\ req = [r \in Requests |-> IdleReq]
  /\ last_store = << >>
  /\ model = InitialModel(settings)

(***************************************************************************)
(* PostExplainer.explain, up to its first await                            *)
(***************************************************************************)
ExplainStart(r, post_text, image_url, use_cache) ==
  /\ Arrives(r)
  /\ LET got == Lookup(use_cache, cache, CacheKeyText(post_text, image_url), now,
                       settings.cache_ttl)
         f0  == [Arrived("explain", post_text, image_url, use_cache) EXCEPT
                   !.cache_written = Written(cache, got.store),
                   !.cache_evicted = Evicted(cache, got.store)]
     IN /\ cache' = got.store
        /\ req' = [req EXCEPT ![r] =
                     IF Truthy(got.value)
                       THEN [f0 EXCEPT !.pc = "returned",
                                       !.result = CachedResponse(got.value)]
                     ELSE IF HasImage(image_url) THEN [f0 EXCEPT !.pc = "image"]
                     ELSE BeginSearch(f0)]
  /\ UNCHANGED << settings, now, last_store, model >>

\* a comparison that starts with explain's cache lookup
CompareStartCached(r, post_text, image_url) ==
  /\ Arrives(r)
  /\ LET got == CacheGet(cache, CacheKeyText(post_text, image_url), now,
                         settings.cache_ttl)
         f0  == Arrived("compare", post_text, image_url, FALSE)
     IN /\ cache' = got.store
        /\ req' = [req EXCEPT ![r] =
                     IF Truthy(got.value)
                       THEN [f0 EXCEPT !.pc = "returned",
                                       !.result = CachedResponse(got.value)]
                     ELSE IF HasImage(image_url) THEN [f0 EXCEPT !.pc = "image"]
                     ELSE BeginSearch(f0)]
  /\ UNCHANGED << settings, now, last_store, model >>

(***************************************************************************)
(* PostExplainer.compare_providers, up to its first await                  *)
(***************************************************************************)
CompareStart(r, post_text, image_url) ==
  /\ Arrives(r)
  /\ LET f0 == Arrived("compare", post_text, image_url, FALSE)
     IN req' = [req EXCEPT ![r] =
                  IF HasImage(image_url) THEN [f0 EXCEPT !.pc = "image"]
                  ELSE BeginSearch(f0)]
  /\ UNCHANGED << settings, cache, now, last_store, model >>

(***************************************************************************)
(* await image_processor.prepare_image_for_vision(image_url) completes     *)
(***************************************************************************)
ImageDone(r, fetch) ==
  /\ req[r].pc = "image"
  /\ LET out == prepare_image_for_vision(req[r].image_url, fetch)
         f   == [req[r] EXCEPT !.calls = Bump(@, "image"), !.fetch = fetch]
     IN req' = [req EXCEPT ![r] =
                  IF out.raised THEN Raise(f, "image", out.message)
                  ELSE BeginSearch([f EXCEPT !.image_data = out.value])]
  /\ UNCHANGED << settings, cache, now, last_store, model >>

(***************************************************************************)
(* SearchService.search: the primary provider's call for the current query *)
(* completes                                                               *)
(***************************************************************************)
\* the except clause around the primary call: NoneStr when the call failed (the
\* fallback is tried, if there is one), else the results to add
\* a primary call made outside the try block
PrimaryUnhandled(outcome) == outcome

PrimaryHandled(outcome) ==
  IF outcome.raised THEN Returned(NoneStr) ELSE outcome

SearchPrimary(r, outcome) ==
  /\ req[r].pc = "primary"
  /\ LET f == [req[r] EXCEPT
                 !.calls = IF outcome.raised
                             THEN Bump(Bump(@, "primary"), "primary_failed")
                             ELSE Bump(@, "primary"),
                 !.search_log = Append(@, Called(req[r].qi, "primary", outcome))]
         h == PrimaryHandled(outcome)
     IN req' = [req EXCEPT ![r] =
                  IF h.raised THEN Raise(f, "primary", h.message)
                  ELSE IF h.value # NoneStr
                    THEN AfterQuery([f EXCEPT !.all_results = @ \o h.value])
                  ELSE IF settings.brave_api_key
                    THEN [f EXCEPT !.pc = "fallback"]
                  ELSE AfterQuery(f)]
  /\ UNCHANGED << settings, cache, now, last_store, model >>

(***************************************************************************)
(* SearchService.search: the fallback provider's call for the current      *)
(* query completes                                                         *)
(***************************************************************************)
\* the inner except clause: a failure of the fallback is logged
\* a fallback call made outside the inner try block
FallbackUnhandled(outcome) == outcome

FallbackHandled(outcome) ==
  IF outcome.raised THEN Returned(<< >>) ELSE outcome

SearchFallback(r, outcome) ==
  /\ req[r].pc = "fallback"
  /\ LET f == [req[r] EXCEPT
                 !.calls = IF outcome.raised
                             THEN Bump(Bump(@, "fallback"), "fallback_failed")
                             ELSE Bump(@, "fallback"),
                 !.search_log = Append(@, Called(req[r].qi, "fallback", outcome))]
         h == FallbackHandled(outcome)
     IN req' = [req EXCEPT ![r] =
                  IF h.raised THEN Raise(f, "fallback", h.message)
                  ELSE AfterQuery([f EXCEPT !.all_results = @ \o h.value])]
  /\ UNCHANGED << settings, cache, now, last_store, model >>

\* history: the outcome of a provider's generate call
Record(outcomes, provider_name, outcome) ==
  [n \in DOMAIN outcomes \cup {provider_name} |->
     IF n = provider_name THEN outcome ELSE outcomes[n]]

(***************************************************************************)
(* explain: await llm_service.generate(prompt, image_data) completes; the  *)
(* reply is parsed, cached and returned                                    *)
(***************************************************************************)
ExplainGenerate(r, outcome) ==
  /\ req[r].pc = "generate"
  /\ req[r].op = "explain"
  /\ LET f == [req[r] EXCEPT
                 !.calls = Bump(@, Head(req[r].todo)), !.todo = Tail(@),
                 !.outcomes = Record(@, Head(req[r].todo), outcome)]
         stored   == CacheAfterExplain(f, outcome, cache, now)
         key      == generate_key(CacheKeyText(f.post_text, f.image_url))
         response == ExplainResponse(parse_bullets(outcome.value),
                                     build_sources(f.search_results, outcome.value),
                                     FALSE)
         f1 == [f EXCEPT !.cache_written = @ \/ Written(cache, stored),
                         !.cache_evicted = @ \cup Evicted(cache, stored)]
     IN /\ cache' = stored
        /\ req' = [req EXCEPT ![r] =
                     IF outcome.raised THEN Raise(f1, "generate", outcome.message)
                     ELSE [f1 EXCEPT !.pc = "returned", !.result = response]]
        /\ last_store' =
             IF outcome.raised \/ ~f.use_cache THEN last_store
             ELSE [k \in DOMAIN last_store \cup {key} |->
                     IF k = key THEN [at |-> now, response |-> response]
                     ELSE last_store[k]]
  /\ UNCHANGED << settings, now, model >>

(***************************************************************************)
(* compare_providers: the generate call of the next available provider     *)
(* completes (LLMService.compare_providers); after the last one the        *)
(* replies are parsed and returned                                         *)
(***************************************************************************)
CompareGenerate(r, outcome) ==
  /\ req[r].pc = "generate"
  /\ req[r].op = "compare"
  /\ LET provider_name == Head(req[r].todo)
         entry == ProviderEntry(outcome)
         f == [req[r] EXCEPT
                 !.calls = Bump(@, provider_name), !.todo = Tail(@),
                 !.outcomes = Record(@, provider_name, outcome)]
         provider_responses == Record(f.provider_responses, provider_name, entry.value)
         results ==
           [n \in DOMAIN provider_responses |->
              CompareEntry(provider_responses[n], f.search_results)]
     IN req' = [req EXCEPT ![r] =
                  IF entry.raised THEN Raise(f, "generate", entry.message)
                  ELSE IF f.todo # << >>
                    THEN [f EXCEPT !.provider_responses = provider_responses]
                  ELSE [f EXCEPT
                          !.provider_responses = provider_responses,
                          !.pc = "returned",
                          !.result =
                            [providers |-> results,
                             available_providers |->
                               get_available_providers(settings)]]]
  \* AnthropicProvider.generate: self.model = model; the replies given to
  \* compare_providers are those of the first listed model
  /\ model' = IF Head(req[r].todo) = "anthropic" /\ ~outcome.raised
                THEN MODEL_FALLBACKS[1] ELSE model
  /\ UNCHANGED << settings, cache, now, last_store >>

(***************************************************************************)
(* The /explain/stream route: EventSourceResponse starts to iterate         *)
(* event_generator, which iterates explain_stream up to its first await    *)
(***************************************************************************)
StreamStart(r, post_text) ==
  /\ Arrives(r)
  /\ req' = [req EXCEPT ![r] = BeginSearch(Arrived("stream", post_text, NoneStr, FALSE))]
  /\ UNCHANGED << settings, cache, now, last_store, model >>

(***************************************************************************)
(* A consumer starts to iterate AnthropicProvider.stream                   *)
(***************************************************************************)
AnthropicStreamStart(r, post_text) ==
  /\ Arrives(r)
  /\ settings.anthropic_api_key
  /\ LET f0 == [Arrived("anthropic_stream", post_text, NoneStr, FALSE) EXCEPT
                  !.todo = << "anthropic" >>, !.model_at_start = model]
     IN req' = [req EXCEPT ![r] =
                  IF ~settings.anthropic_installed
                    THEN Raise(f0, "stream", NotAvailableMessage)
                    ELSE [f0 EXCEPT !.attempt = 1, !.pc = "open"]]
  /\ UNCHANGED << settings, cache, now, last_store, model >>

\* an exception raised while the stream is being sent, with the "done" event
\* sent after the handler
FailThenDone(f, message) ==
  IF f.op = "stream"
    THEN [f EXCEPT !.events = @ \o << ErrorEvent(message), DoneEvent >>,
                   !.pc = "finished", !.raised_by = "stream", !.error = message]
    ELSE Raise(f, "stream", message)

\* a text reaches the consumer: as a "chunk" event on the route, as it is for a
\* consumer of the provider
Deliver(f, text) ==
  IF f.op = "stream"
    THEN [f EXCEPT !.events = @ \o SseEvents([type |-> "chunk", data |-> text])]
    ELSE [f EXCEPT !.events = Append(@, [event |-> "text", data |-> text])]

\* the stream method returns: event_generator sends "done"
Finish(f) ==
  IF f.op = "stream"
    THEN [f EXCEPT !.events = Append(@, DoneEvent), !.pc = "finished"]
    ELSE [f EXCEPT !.pc = "finished"]

\* the stream method raises: event_generator sends "error" and ends; a consumer
\* of the provider gets the exception
Fail(f, message) ==
  IF f.op = "stream"
    THEN [f EXCEPT !.events = Append(@, ErrorEvent(message)), !.pc = "finished",
                   !.raised_by = "stream", !.error = message]
    ELSE Raise(f, "stream", message)

(***************************************************************************)
(* The call that opens the provider's stream completes                     *)
(***************************************************************************)
StreamOpened(r, outcome) ==
  /\ req[r].pc = "open"
  /\ LET provider_name == Head(req[r].todo)
         f == [req[r] EXCEPT
                 !.calls = Bump(@, provider_name),
                 !.outcomes = Record(@, provider_name, outcome),
                 !.attempts = IF provider_name = "anthropic" /\ outcome.raised
                                THEN Append(@, Tried(req[r].attempt, TRUE, outcome.message))
                                ELSE @]
         step == OpenStep(provider_name, f.attempt, outcome)
     IN req' = [req EXCEPT ![r] =
                  IF step.do = "opened" THEN [f EXCEPT !.handle = "open", !.pc = "next"]
                  ELSE IF step.do = "retry" THEN [f EXCEPT !.attempt = @ + 1]
                  ELSE Fail(f, step.text)]
  \* AnthropicProvider.stream: self.model = model on entry of the async with
  /\ model' = IF Head(req[r].todo) = "anthropic" /\ ~outcome.raised
                THEN MODEL_FALLBACKS[req[r].attempt] ELSE model
  /\ UNCHANGED << settings, cache, now, last_store >>

(***************************************************************************)
(* The next item of the provider's stream arrives                          *)
(***************************************************************************)
StreamNext(r, item) ==
  /\ req[r].pc = "next"
  /\ item.kind = "chunk" => Len(req[r].produced) < MaxChunks
  /\ LET provider_name == Head(req[r].todo)
         f == [req[r] EXCEPT
                 !.handle = HandleAfterItem(provider_name, @, item),
                 !.produced = IF item.kind = "chunk" THEN Append(@, item.text) ELSE @,
                 !.outcomes = IF item.kind = "raise"
                                THEN Record(@, provider_name, Raised(item.text))
                                ELSE @,
                 !.attempts = IF provider_name = "anthropic" /\ item.kind # "chunk"
                                THEN Append(@, Tried(req[r].attempt, item.kind = "raise",
                                                     item.text))
                                ELSE @]
         step == NextStep(provider_name, f.attempt, item)
     IN req' = [req EXCEPT ![r] =
                  IF step.do = "yield" THEN Deliver(f, step.text)
                  ELSE IF step.do = "skip" THEN f
                  ELSE IF step.do = "end" THEN Finish(f)
                  ELSE IF step.do = "retry"
                    THEN [f EXCEPT !.attempt = @ + 1, !.pc = "open"]
                  ELSE Fail(f, step.text)]
  /\ UNCHANGED << settings, cache, now, last_store, model >>

(***************************************************************************)
(* The consumer stops consuming before the stream has ended                *)
(***************************************************************************)
ConsumerClose(r) ==
  /\ req[r].op \in { "stream", "anthropic_stream" }
  /\ req[r].pc \in { "primary", "fallback", "open", "next" }
  /\ req' = [req EXCEPT ![r] =
               [@ EXCEPT !.closed = TRUE, !.pc = "closed",
                         !.handle = IF req[r].todo = << >> THEN @
                                    ELSE HandleAfterClose(Head(req[r].todo), @)]]
  /\ UNCHANGED << settings, cache, now, last_store, model >>

(***************************************************************************)
(* Time passes                                                             *)
(***************************************************************************)
Tick ==
  /\ now < MaxTime
  /\ now' = now + 1
  /\ UNCHANGED << settings, cache, req, last_store, model >>

(***************************************************************************)
(* Spec: two requests share the cache, in any interleaving                 *)
(***************************************************************************)
Init == InitWith(SharedSettings)

Next ==
  \/ \E r \in Requests, t \in SharedTexts, u \in ImageUrls, c \in BOOLEAN :
       ExplainStart(r, t, u, c)
  \/ \E r \in Requests, t \in SharedTexts, u \in ImageUrls : CompareStart(r, t, u)
  \/ \E r \in Requests, fetch \in SharedImageFetches : ImageDone(r, fetch)
  \/ \E r \in Requests, o \in PrimaryOutcomes : SearchPrimary(r, o)
  \/ \E r \in Requests, o \in FallbackOutcomes : SearchFallback(r, o)
  \/ \E r \in Requests, o \in SharedExplainOutcomes : ExplainGenerate(r, o)
  \/ \E r \in Requests, o \in SharedCompareOutcomes : CompareGenerate(r, o)
  \/ Tick

Spec == Init /\ [][Next]_vars

(***************************************************************************)
(* SpecOne: one request, under every configuration and every outcome       *)
(***************************************************************************)
InitOne == InitWith(Settings)

NextOne ==
  \/ \E t \in PostTexts, u \in ImageUrls, c \in BOOLEAN :
       ExplainStart(RequestOrder[1], t, u, c)
  \/ \E t \in PostTexts, u \in ImageUrls : CompareStart(RequestOrder[1], t, u)
  \/ \E fetch \in ImageFetches : ImageDone(RequestOrder[1], fetch)
  \/ \E o \in PrimaryOutcomes : SearchPrimary(RequestOrder[1], o)
  \/ \E o \in FallbackOutcomes : SearchFallback(RequestOrder[1], o)
  \/ \E o \in ExplainOutcomes : ExplainGenerate(RequestOrder[1], o)
  \/ \E o \in LLMOutcomes : CompareGenerate(RequestOrder[1], o)
  \/ \E t \in PostTexts : StreamStart(RequestOrder[1], t)
  \/ \E t \in SharedTexts : AnthropicStreamStart(RequestOrder[1], t)
  \/ \E o \in StreamOpenOutcomes : StreamOpened(RequestOrder[1], o)
  \/ \E item \in StreamItems : StreamNext(RequestOrder[1], item)
  \/ ConsumerClose(RequestOrder[1])

SpecOne == InitOne /\ [][NextOne]_vars

(***************************************************************************)
(* SpecPair: two requests through the /explain route                       *)
(***************************************************************************)
InitPair == InitWith(PairSettings)

NextPair ==
  \/ \E r \in Requests, t \in PairTexts, u \in ImageUrls : ExplainStart(r, t, u, TRUE)
  \/ \E r \in Requests, fetch \in PairImageFetches : ImageDone(r, fetch)
  \/ \E r \in Requests, o \in PrimaryOutcomes : SearchPrimary(r, o)
  \/ \E r \in Requests, o \in PairOutcomes : ExplainGenerate(r, o)

SpecPair == InitPair /\ [][NextPair]_vars

(***************************************************************************)
(* SpecCache: a client of the cache service calls get, set, clear and      *)
(* cleanup_expired while time passes.  The client's frame holds its latest *)
(* call; last_store holds the latest set under each key since the last     *)
(* clear.                                                                  *)
(***************************************************************************)
\* the frame of a call of the cache service with its key text
CacheCall(op, text) ==
  LET key == generate_key(text)
  IN [IdleReq EXCEPT
        !.op = op, !.pc = "returned", !.post_text = text,
        !.live_at_start = LiveEntry(key),
        !.stale_at_start = StaleEntry(key),
        !.entry_at_start = IF LiveEntry(key) THEN cache[key].value ELSE None,
        !.fresh_at_start = FreshStore(key),
        !.origin = IF FreshStore(key) THEN last_store[key].response ELSE None]

CacheSetCall(r, text, value) ==
  /\ cache' = CacheSet(cache, text, value, now)
  /\ req' = [req EXCEPT ![r] =
               [CacheCall("cache_set", text) EXCEPT
                  !.cache_written = Written(cache, cache'),
                  !.cache_evicted = Evicted(cache, cache')]]
  /\ last_store' =
       [k \in DOMAIN last_store \cup { generate_key(text) } |->
          IF k = generate_key(text) THEN [at |-> now, response |-> value]
          ELSE last_store[k]]
  /\ UNCHANGED << settings, now, model >>

CacheGetCall(r, text) ==
  /\ LET got == CacheGet(cache, text, now, settings.cache_ttl)
     IN /\ cache' = got.store
        /\ req' = [req EXCEPT ![r] =
                     [CacheCall("cache_get", text) EXCEPT
                        !.result = got.value,
                        !.cache_written = Written(cache, got.store),
                        !.cache_evicted = Evicted(cache, got.store)]]
  /\ UNCHANGED << settings, now, last_store, model >>

CacheClearCall(r) ==
  /\ cache' = CacheClear(cache)
  /\ req' = [req EXCEPT ![r] =
               [IdleReq EXCEPT !.op = "cache_clear", !.pc = "returned",
                               !.cache_evicted = Evicted(cache, cache')]]
  /\ last_store' = << >>
  /\ UNCHANGED << settings, now, model >>

CacheCleanupCall(r) ==
  /\ LET swept == CacheCleanup(cache, now, settings.cache_ttl)
     IN /\ cache' = swept.store
        /\ req' = [req EXCEPT ![r] =
                     [IdleReq EXCEPT !.op = "cache_cleanup", !.pc = "returned",
                                     !.result = [removed |-> swept.removed],
                                     !.cache_evicted = Evicted(cache, swept.store)]]
  /\ UNCHANGED << settings, now, last_store, model >>

InitCache == InitWith(PairSettings)

NextCache ==
  \/ \E t \in CacheTexts, v \in CacheValues : CacheSetCall(RequestOrder[1], t, v)
  \/ \E t \in CacheTexts : CacheGetCall(RequestOrder[1], t)
  \/ CacheClearCall(RequestOrder[1])
  \/ CacheCleanupCall(RequestOrder[1])
  \/ Tick

SpecCache == InitCache /\ [][NextCache]_vars

(***************************************************************************)
(* Properties of explain's use of the cache                                *)
(***************************************************************************)
Explains == { r \in Requests : req[r].op = "explain" }
Compares == { r \in Requests : req[r].op = "compare" }

NoPipelineCalls(f) ==
  /\ f.calls.image = 0
  /\ f.calls.primary = 0
  /\ f.calls.fallback = 0
  /\ f.calls.openai = 0
  /\ f.calls.anthropic = 0

\* C1: an explain call with use_cache = true that finds an unexpired entry under
\* its cache key returns a response with cached = true whose bullets and sources
\* are those of the entry, and does nothing else: no image download, no search
\* call, no LLM call and no write to the cache.
C1_CacheHitReturnsEntry ==
  \A r \in Explains :
    req[r].use_cache /\ req[r].live_at_start =>
      /\ req[r].pc = "returned"
      /\ req[r].result.cached = TRUE
      /\ req[r].result.bullets = req[r].entry_at_start.bullets
      /\ Len(req[r].result.sources) = Len(req[r].entry_at_start.sources)
      /\ \A i \in 1..Len(req[r].result.sources) :
           model_dump(req[r].result.sources[i]) = req[r].entry_at_start.sources[i]
      /\ NoPipelineCalls(req[r])
      /\ ~req[r].cache_written
      /\ req[r].cache_evicted = {}

\* a request with an image finds an entry that is exactly one TTL old and that
\* holds sources
C1_Witness ==
  \E r \in Explains :
    /\ req[r].use_cache /\ req[r].live_at_start
    /\ HasImage(req[r].image_url)
    /\ now - cache[generate_key(CacheKeyText(req[r].post_text, req[r].image_url))].timestamp
         = settings.cache_ttl
    /\ req[r].pc = "returned"
    /\ Len(req[r].result.sources) > 0

\* C2: when an explain call with use_cache = true has completed and stored its
\* response, a later explain call with use_cache = true for the same text and
\* image within the TTL returns cached = true with the bullets and the sources of
\* that response and makes no search call and no LLM call; this includes a first
\* reply that parsed to no bullets at all.
C2_SecondCallServedFromCache ==
  \A r \in Explains :
    req[r].use_cache /\ req[r].fresh_at_start =>
      /\ req[r].pc = "returned"
      /\ req[r].result.cached = TRUE
      /\ req[r].result.bullets = req[r].origin.bullets
      /\ req[r].result.sources = req[r].origin.sources
      /\ req[r].origin.cached = FALSE
      /\ req[r].calls.primary = 0
      /\ req[r].calls.fallback = 0
      /\ req[r].calls.openai = 0
      /\ req[r].calls.anthropic = 0

\* the second of two identical calls, after a first one whose reply had no bullets
C2_Witness ==
  \E r1, r2 \in Explains :
    /\ r1 # r2
    /\ req[r1].use_cache /\ req[r1].pc = "returned" /\ req[r1].result.cached = FALSE
    /\ req[r1].result.bullets = << >>
    /\ req[r1].calls.openai = 1
    /\ req[r2].post_text = req[r1].post_text /\ req[r2].image_url = req[r1].image_url
    /\ req[r2].use_cache /\ req[r2].fresh_at_start
    /\ req[r2].origin = req[r1].result
    /\ req[r2].pc = "returned"

\* the request failed in the LLM generation step
GenerateFailed(f) == f.pc = "raised" /\ f.raised_by = "generate"

\* C3 (as stated): when the LLM generation step of an explain call fails, the
\* failure is raised to the caller, no response is produced, and the cache holds
\* after the call exactly what it held before it.
C3_CacheUntouchedOnFailure ==
  \A r \in Explains :
    GenerateFailed(req[r]) =>
      /\ req[r].result = None
      /\ req[r].error # NoneStr
      /\ ~req[r].cache_written
      /\ req[r].cache_evicted = {}

\* C3 (amended): when the LLM generation step of an explain call fails, the
\* failure is raised to the caller, no response is produced and the call adds or
\* replaces no cache entry; the one change it can have made is the removal, by
\* its lookup, of an expired entry under its own key.
C3_NothingStoredOnFailure ==
  \A r \in Explains :
    GenerateFailed(req[r]) =>
      /\ req[r].result = None
      /\ req[r].error # NoneStr
      /\ ~req[r].cache_written
      /\ req[r].cache_evicted =
           IF req[r].use_cache /\ req[r].stale_at_start
             THEN { generate_key(CacheKeyText(req[r].post_text, req[r].image_url)) }
             ELSE {}

\* a failed call whose lookup had removed the expired entry under its key
C3_Witness ==
  \E r \in Explains :
    /\ GenerateFailed(req[r])
    /\ req[r].use_cache /\ req[r].stale_at_start
    /\ req[r].calls.openai = 1
    /\ req[r].cache_evicted # {}

(***************************************************************************)
(* Properties of the recovery from image and search failures               *)
(***************************************************************************)
\* the ways the image processor can fail: HTTP error or timeout, a content type
\* that is not an image, a body over the size limit, an empty body
ImageFails(fetch) ==
  \/ fetch.status # "ok"
  \/ ~fetch.is_image
  \/ fetch.size > MAX_IMAGE_SIZE
  \/ fetch.size = 0

SearchDone(f) == f.pc \in { "generate", "returned", "raised" } /\ f.queries # << >>

\* C4: in explain and in compare_providers, when an image URL is given and the
\* image processor fails (HTTP error, timeout, content that is not an image, an
\* oversize or an empty body), the request is not aborted: the queries are
\* extracted, the search runs and the LLM is called with no image payload, and no
\* error of the image step reaches the caller.
C4_ImageFailureNeverAborts ==
  \A r \in Explains \cup Compares :
    req[r].calls.image = 1 /\ ImageFails(req[r].fetch) =>
      /\ req[r].raised_by # "image"
      /\ req[r].image_data = None
      /\ req[r].queries = extract_search_queries(req[r].post_text)
      /\ req[r].pc \in { "primary", "fallback", "generate", "returned", "raised" }
      /\ SearchDone(req[r]) =>
           /\ req[r].calls.primary = Len(req[r].queries)
           /\ req[r].prompt # None
           /\ req[r].sent_image = None
      /\ req[r].pc = "raised" => req[r].raised_by = "generate"
      /\ req[r].pc = "returned" => req[r].calls.openai = 1

\* an explain call that returned although the GET of its image ended in an HTTP
\* error
C4_Witness ==
  \E r \in Explains :
    /\ HasImage(req[r].image_url)
    /\ req[r].calls.image = 1
    /\ req[r].fetch.status = "http_error"
    /\ req[r].pc = "returned"
    /\ req[r].result.bullets # << >>

AllPrimaryFailed(f) ==
  SearchDone(f) /\ f.calls.primary_failed = Len(f.queries)

\* C5: when the primary search provider fails for every extracted query and no
\* fallback provider is configured, search returns an empty list and explain
\* still completes unless the LLM call fails: the prompt carries the marker for
\* "no relevant results", the LLM is called, and the response returned has an
\* empty list of sources.
C5_EmptySearchStillExplains ==
  \A r \in Explains :
    ~settings.brave_api_key /\ AllPrimaryFailed(req[r]) =>
      /\ req[r].pc = "raised" =>
           req[r].raised_by = "generate" /\ req[r].outcomes["openai"].raised
      /\ req[r].calls.fallback = 0
      /\ req[r].search_results = << >>
      /\ req[r].prompt.search_context = NoResultsMarker
      /\ req[r].prompt.post_text = req[r].post_text
      /\ req[r].pc = "returned" =>
           /\ req[r].calls.openai = 1
           /\ ~req[r].outcomes["openai"].raised
           /\ req[r].result.sources = << >>
           /\ req[r].result.bullets = parse_bullets(req[r].outcomes["openai"].value)

\* an explain call of two queries, both failed, that returned a bullet
C5_Witness ==
  \E r \in Explains :
    /\ ~settings.brave_api_key
    /\ Len(req[r].queries) >= 2
    /\ AllPrimaryFailed(req[r])
    /\ req[r].pc = "returned"
    /\ req[r].result.bullets # << >>

\* C6: search never raises because of provider failures: whatever calls of the
\* primary and of the fallback provider fail, for some or for all of the queries,
\* search returns a list (of at most max_search_results results).
C6_SearchNeverRaises ==
  \A r \in Explains \cup Compares :
    /\ req[r].raised_by \notin { "primary", "fallback" }
    /\ req[r].pc \in { "primary", "fallback" } => req[r].qi \in 1..Len(req[r].queries)
    /\ SearchDone(req[r]) =>
         /\ req[r].calls.primary = Len(req[r].queries)
         /\ req[r].calls.fallback =
              IF settings.brave_api_key THEN req[r].calls.primary_failed ELSE 0
         /\ DOMAIN req[r].search_results = 1..Len(req[r].search_results)
         /\ Len(req[r].search_results) <= settings.max_search_results

\* both providers failed for each of two queries, and search has returned
C6_Witness ==
  \E r \in Explains \cup Compares :
    /\ Len(req[r].queries) >= 2
    /\ req[r].calls.primary_failed = Len(req[r].queries)
    /\ req[r].calls.fallback_failed = Len(req[r].queries)
    /\ SearchDone(req[r])
    /\ req[r].search_results = << >>

(***************************************************************************)
(* Properties of compare_providers                                         *)
(***************************************************************************)
Available == Range(get_available_providers(settings))

\* both providers were called, the secondary's call raised, the primary's did not
SecondaryFailedAlone(f) ==
  /\ "anthropic" \in Available
  /\ DOMAIN f.outcomes = { "openai", "anthropic" }
  /\ f.outcomes["anthropic"].raised
  /\ ~f.outcomes["openai"].raised

\* the entry of a reply that is parsed normally
ParsedEntry(raw_response, search_results) ==
  LET sources == build_sources(search_results, raw_response)
  IN [bullets |-> parse_bullets(raw_response),
      sources |-> [i \in 1..Len(sources) |-> model_dump(sources[i])]]

\* C7: in compare_providers, when the secondary provider is available and its
\* generate call raises while the primary's call succeeds, the call returns and
\* its "providers" mapping holds for the secondary an entry of the shape
\* {error, bullets: [], sources: []} and for the primary the parsed bullets and
\* the filtered sources of the primary's reply.
C7_SecondaryErrorPrimaryParsed ==
  \A r \in Compares :
    SecondaryFailedAlone(req[r]) =>
      /\ req[r].pc = "returned"
      /\ DOMAIN req[r].result.providers = { "openai", "anthropic" }
      /\ req[r].result.providers["anthropic"] =
           [error |-> ErrorString(req[r].outcomes["anthropic"].message),
            bullets |-> << >>, sources |-> << >>]
      /\ req[r].result.providers["openai"] =
           ParsedEntry(req[r].outcomes["openai"].value, req[r].search_results)

\* C8: LLMService.compare_providers never raises and returns a mapping whose
\* keys are exactly the available providers: each available provider's generate
\* is called exactly once, whether or not an earlier provider failed, a provider
\* that is not available is never called, the entry of a provider that failed is
\* an error-marker string and the entry of one that succeeded is its raw text.
C8_EveryAvailableProviderOnce ==
  \A r \in Compares :
    /\ req[r].raised_by # "generate"
    /\ req[r].calls.openai <= 1
    /\ req[r].calls.anthropic <= 1
    /\ ~(settings.anthropic_api_key /\ settings.anthropic_installed) =>
         req[r].calls.anthropic = 0
    /\ DOMAIN req[r].provider_responses = DOMAIN req[r].outcomes
    /\ \A n \in DOMAIN req[r].provider_responses :
         /\ req[r].calls[n] = 1
         /\ req[r].provider_responses[n] =
              IF req[r].outcomes[n].raised
                THEN ErrorMarker \o << " " >> \o req[r].outcomes[n].message
                ELSE req[r].outcomes[n].value
    /\ req[r].pc = "returned" =>
         /\ DOMAIN req[r].provider_responses = Available
         /\ "openai" \in Available
         /\ "anthropic" \in Available <=>
              settings.anthropic_api_key /\ settings.anthropic_installed

\* the primary failed, and the secondary was still called and succeeded
C8_Witness ==
  \E r \in Compares :
    /\ req[r].pc = "returned"
    /\ req[r].outcomes["openai"].raised
    /\ req[r].calls.anthropic = 1
    /\ ~req[r].outcomes["anthropic"].raised
    /\ StartsWith(req[r].provider_responses["openai"], ErrorMarker)
    /\ req[r].provider_responses["anthropic"] = req[r].outcomes["anthropic"].value

\* the step taken is a step of request r
StepOf(r) == req'[r] # req[r]

RanPipeline(f) ==
  /\ f.queries # << >>
  /\ f.calls.primary = Len(f.queries)
  /\ f.calls.openai = 1

\* C9: compare_providers bypasses the cache: no step of a comparison changes the
\* cache, and a comparison that returns has run the search and called every
\* available provider, whatever the cache holds for its text and image.
C9_CompareBypassesCache ==
  [][\A r \in Requests :
       StepOf(r) /\ req'[r].op = "compare" =>
         /\ cache' = cache
         /\ req'[r].pc # "raised"
         /\ req'[r].pc = "returned" =>
              /\ RanPipeline(req'[r])
              /\ \A n \in Available : req'[r].calls[n] = 1
              /\ DOMAIN req'[r].result = { "providers", "available_providers" }]_vars

\* a comparison that found a live entry for its text and image when it arrived has
\* returned, and the entry is still there
C9_Witness ==
  \E r \in Compares :
    /\ req[r].live_at_start
    /\ req[r].pc = "returned"
    /\ LiveEntry(generate_key(CacheKeyText(req[r].post_text, req[r].image_url)))

\* C10: explain with use_cache = false neither reads nor changes the cache: no
\* step of it changes the cache, and when it returns it has run the whole pipeline
\* and its response has cached = false, also when the cache holds a live entry for
\* its key.
C10_NoCacheWithoutUseCache ==
  [][\A r \in Requests :
       StepOf(r) /\ req'[r].op = "explain" /\ ~req'[r].use_cache =>
         /\ cache' = cache
         /\ req'[r].pc = "returned" =>
              /\ RanPipeline(req'[r])
              /\ req'[r].result.cached = FALSE]_vars

\* an explain call with use_cache = false that found a live entry for its key when
\* it arrived has returned
C10_Witness ==
  \E r \in Explains :
    /\ ~req[r].use_cache
    /\ req[r].live_at_start
    /\ req[r].pc = "returned"
    /\ req[r].result.cached = FALSE
    /\ cache[generate_key(CacheKeyText(req[r].post_text, req[r].image_url))].value
         = req[r].entry_at_start

(***************************************************************************)
(* Properties of the streaming path                                        *)
(***************************************************************************)
Streams == { r \in Requests : req[r].op = "stream" }
ProviderStreams == { r \in Requests : req[r].op \in { "stream", "anthropic_stream" } }

IsText(text) == text # << >>

EventNames(events) == [i \in 1..Len(events) |-> events[i].event]

\* the events are one "sources" event and then "chunk" events only
SourcesThenChunks(names) ==
  /\ names # << >>
  /\ names[1] = "sources"
  /\ \A i \in 2..Len(names) : names[i] = "chunk"

\* C11: a streaming request in which no step raises delivers one "sources"
\* event first, carrying every search result (not only the cited ones) with the
\* ids 1..n in the order of the search results and snippets cut to 200
\* characters, then the "chunk" events of the texts the model produced, in that
\* order, then one "done" event, and nothing after it.
C11_StreamEventOrder ==
  \A r \in Streams :
    req[r].raised_by = "none" =>
      LET ev    == req[r].events
          n     == Len(ev)
          texts == SelectSeq(req[r].produced, IsText)
          last  == IF req[r].pc = "finished" THEN n - 1 ELSE n
      IN /\ req[r].pc \in { "primary", "fallback" } => ev = << >>
         /\ req[r].pc \in { "open", "next", "finished" } => n >= 1
         /\ n >= 1 =>
              /\ SourcesThenChunks(SubSeq(EventNames(ev), 1, last))
              /\ Len(ev[1].data) = Len(req[r].search_results)
              /\ \A i \in 1..Len(ev[1].data) :
                   /\ ev[1].data[i].id = i
                   /\ ev[1].data[i].title = req[r].search_results[i].title
                   /\ ev[1].data[i].url = req[r].search_results[i].url
                   /\ ev[1].data[i].snippet =
                        IF req[r].search_results[i].snippet.len = 0 THEN None
                        ELSE SnippetTake(req[r].search_results[i].snippet, 200)
              /\ last - 1 = Len(texts)
              /\ \A i \in 1..Len(texts) : ev[i + 1].data = [text |-> texts[i]]
         /\ req[r].pc = "finished" => n >= 2 /\ ev[n] = DoneEvent

\* a finished stream of four sources, of which the reply cited none, and of a
\* chunk after an empty text of the model
C11_Witness ==
  \E r \in Streams :
    /\ req[r].pc = "finished"
    /\ req[r].raised_by = "none"
    /\ Len(req[r].events[1].data) = 4
    /\ req[r].produced = << << >>, << "h", "i" >> >>
    /\ Len(req[r].events) = 3

\* C12: when a step of a streaming request raises, before the first chunk or
\* after some chunks, the stream sends one "error" event with the message of the
\* exception and ends; no "chunk" and no "done" event follows an "error" event,
\* and a stream that has ended of itself ends with exactly one terminal event,
\* "done" or "error".
C12_StreamErrorIsTerminal ==
  \A r \in Streams :
    LET ev == req[r].events
        n  == Len(ev)
        names == EventNames(ev)
        terminal == { i \in 1..n : names[i] \in { "done", "error" } }
    IN /\ terminal \subseteq { n }
       /\ req[r].pc = "finished" <=> terminal = { n } /\ n >= 1
       /\ \A i \in 1..n : names[i] = "error" =>
            /\ "openai" \in DOMAIN req[r].outcomes
            /\ req[r].outcomes["openai"].raised
            /\ ev[i].data = [error |-> req[r].outcomes["openai"].message]
       /\ ("openai" \in DOMAIN req[r].outcomes /\ req[r].outcomes["openai"].raised) =>
            /\ req[r].pc = "finished"
            /\ names[n] = "error"

\* the model's stream raised after a chunk had been sent
C12_Witness ==
  \E r \in Streams :
    /\ req[r].pc = "finished"
    /\ EventNames(req[r].events) = << "sources", "chunk", "error" >>
    /\ req[r].outcomes["openai"].raised

Ended(f) == f.pc \in { "finished", "raised", "closed" }

\* C13: once the consumer of a stream has stopped consuming, no further provider
\* call is made, and the provider's stream handle is released on every way out
\* of the stream methods: normal completion, error, and early termination.
C13_StreamHandleReleased ==
  [][\A r \in Requests :
       /\ req[r].closed =>
            /\ req'[r].calls = req[r].calls
            /\ req'[r].attempt = req[r].attempt
            /\ req'[r].events = req[r].events
       /\ (req'[r].op \in { "stream", "anthropic_stream" } /\ Ended(req'[r])) =>
            req'[r].handle # "open"]_vars

\* C14: explain and explain_stream call only the primary LLM provider: the
\* secondary provider is never called by them, also when it is configured and
\* available and also when the primary's call fails.
C14_OnlyPrimaryProvider ==
  \A r \in Explains \cup Streams :
    /\ req[r].calls.anthropic = 0
    /\ DOMAIN req[r].outcomes \subseteq { "openai" }
    /\ req[r].calls.openai <= 1
    /\ (req[r].pc \in { "returned", "raised", "finished" } /\ req[r].queries # << >>) =>
         req[r].calls.openai = 1

\* a stream whose primary provider failed while the secondary was available
C14_Witness ==
  \E r \in Streams :
    /\ "anthropic" \in Available
    /\ req[r].pc = "finished"
    /\ req[r].outcomes["openai"].raised
    /\ req[r].calls.openai = 1

(***************************************************************************)
(* Properties of the HTTP boundary and of the cache key                    *)
(***************************************************************************)
\* C15: when an exception escapes the pipeline during an /explain or
\* /explain/compare request, the caller gets a generic internal error whose
\* content does not depend on the message of the exception: two requests that
\* fail with different messages get the same error body.
C15_GenericErrorBody ==
  \A r1, r2 \in Explains \cup Compares :
    req[r1].pc = "raised" /\ req[r2].pc = "raised" =>
      /\ req[r1].http.status_code = 500
      /\ req[r1].http.body = req[r2].http.body

\* the post texts are equal after lowercasing and trimming
SameNormalizedText(t1, t2) == Strip(Lower(t1)) = Strip(Lower(t2))

\* C18: two explain calls whose post texts are equal after lowercasing and
\* trimming leading and trailing whitespace, and whose image_url is the same,
\* use the same cache key: the second, arriving after the first has stored its
\* response, is served from that entry; without an image_url and with one.
C18_NormalizedTextsShareEntry ==
  [][\A r1, r2 \in Requests :
       ( /\ req[r1].op = "explain" /\ req[r1].use_cache
         /\ req[r1].pc = "returned" /\ ~req[r1].result.cached
         /\ req[r2].pc = "idle"
         /\ req'[r2].op = "explain" /\ req'[r2].use_cache
         /\ SameNormalizedText(req[r1].post_text, req'[r2].post_text)
         /\ req[r1].image_url = req'[r2].image_url ) =>
           /\ req'[r2].pc = "returned"
           /\ req'[r2].result.cached
           /\ req'[r2].result.bullets = req[r1].result.bullets
           /\ req'[r2].result.sources = req[r1].result.sources]_vars

(***************************************************************************)
(* Properties of the cache service                                         *)
(***************************************************************************)
CacheGets == { r \in Requests : req[r].op = "cache_get" }

\* C16: after set(k, v), a get(k) made before the TTL has elapsed, with no set
\* of k and no clear in between, returns v, whatever gets and sets of other keys
\* were made in between.
C16_GetAfterSet ==
  \A r \in CacheGets :
    req[r].fresh_at_start =>
      /\ req[r].result = req[r].origin
      /\ req[r].cache_evicted = {}
      /\ ~req[r].cache_written

\* a get that returned the value set one TTL before under a key text of another
\* case, with an entry of another key in the store
C16_Witness ==
  \E r \in CacheGets :
    /\ req[r].fresh_at_start
    /\ req[r].post_text = << " ", "A", " " >>
    /\ req[r].result = req[r].origin
    /\ now - last_store[generate_key(req[r].post_text)].at = settings.cache_ttl
    /\ generate_key(<< "b" >>) \in DOMAIN cache

\* C17: get on an entry whose age exceeds the TTL returns nothing, as for a key
\* that was never set, and removes the entry from the store; get never returns
\* a value whose age exceeds the TTL.
C17_ExpiredIsMissAndEvicted ==
  \A r \in CacheGets :
    LET key == generate_key(req[r].post_text)
    IN /\ req[r].stale_at_start =>
            /\ req[r].result = None
            /\ req[r].cache_evicted = { key }
            /\ key \notin DOMAIN cache
       /\ (~req[r].stale_at_start /\ ~req[r].live_at_start) =>
            /\ req[r].result = None
            /\ req[r].cache_evicted = {}
       /\ req[r].result # None =>
            /\ req[r].live_at_start
            /\ req[r].result = req[r].entry_at_start
       /\ ~req[r].cache_written

\* a get that found an expired entry, with a live entry of another key left
C17_Witness ==
  \E r \in CacheGets :
    /\ req[r].stale_at_start
    /\ req[r].result = None
    /\ req[r].cache_evicted # {}
    /\ cache # << >>

(***************************************************************************)
(* Concurrent explain requests on the one cache                            *)
(***************************************************************************)
\* the explain calls that stored their response
Writers ==
  { q \in Explains : /\ req[q].use_cache /\ req[q].pc = "returned"
                     /\ ~req[q].result.cached }

KeyOf(r) == generate_key(CacheKeyText(req[r].post_text, req[r].image_url))

\* C19: under any interleaving of concurrent explain requests on the one
\* cache, each get and each set is atomic: every entry is the complete
\* {bullets, sources} value of one completed set together with the timestamp of
\* that same set, a request that gets a hit observes the value one writer
\* stored, and no get or set fails.
C19_CacheOperationsAtomic ==
  /\ \A k \in DOMAIN cache :
       /\ k \in DOMAIN last_store
       /\ cache[k].timestamp = last_store[k].at
       /\ DOMAIN cache[k].value = { "bullets", "sources" }
       /\ cache[k].value = CacheValue(last_store[k].response.bullets,
                                      last_store[k].response.sources)
  /\ \A r \in Explains :
       /\ req[r].pc = "raised" => req[r].raised_by = "generate"
       /\ (req[r].pc = "returned" /\ req[r].result.cached) =>
            \E q \in Writers \ { r } :
              /\ KeyOf(q) = KeyOf(r)
              /\ req[r].result.bullets = req[q].result.bullets
              /\ req[r].result.sources = req[q].result.sources

\* two requests for one key that both missed and both stored their response,
\* the second set replacing the entry of the first at a later time
C19_Witness ==
  \E r1, r2 \in Writers :
    /\ r1 # r2
    /\ KeyOf(r1) = KeyOf(r2)
    /\ req[r1].cache_written /\ req[r2].cache_written
    /\ req[r1].result.bullets # req[r2].result.bullets
    /\ KeyOf(r1) \in DOMAIN cache
    /\ cache[KeyOf(r1)].timestamp > 0

(***************************************************************************)
(* The query extractor called on its own                                   *)
(***************************************************************************)
ExtractCall(r, text) ==
  /\ req[r].pc = "idle"
  /\ req' = [req EXCEPT ![r] =
               [IdleReq EXCEPT !.op = "extract", !.pc = "returned",
                               !.post_text = text,
                               !.queries = extract_search_queries(text)]]
  /\ UNCHANGED << settings, cache, now, last_store, model >>

InitExtract == InitWith(PairSettings)

NextExtract == \E text \in ExtractInputs : ExtractCall(RequestOrder[1], text)

SpecExtract == InitExtract /\ [][NextExtract]_vars

Extracts == { r \in Requests : req[r].op = "extract" }

\* C20: for every input text, the empty text included, extract_search_queries
\* returns at least 1 and at most 3 queries, and no two of them are equal when
\* compared without regard to case after trimming.
C20_OneToThreeDistinctQueries ==
  \A r \in Extracts :
    LET queries == req[r].queries
    IN /\ Len(queries) >= 1
       /\ Len(queries) <= 3
       /\ \A i, j \in 1..Len(queries) :
            i # j => Strip(Lower(queries[i])) # Strip(Lower(queries[j]))

\* a text with a quoted word, the same word in capitals as hashtag and a
\* mention: the hashtag is dropped as a duplicate and three queries are left
C20_Witness ==
  \E r \in Extracts :
    LET text == << "\"" >> \o WordToken \o << "\"", "#" >> \o Upper4
                  \o << "@" >> \o WordToken
    IN /\ req[r].post_text = text
       /\ req[r].queries = << text, WordToken, WordToken \o SocialMediaSuffix >>

\* C21: for every input text, every query extract_search_queries returns is
\* longer than 3 characters after trimming, the queries of the fallback path
\* for very short or empty inputs included.
C21_QueriesLongerThanThree ==
  \A r \in Extracts :
    \A i \in 1..Len(req[r].queries) : Len(Strip(req[r].queries[i])) > 3

\* C22: for any input of at most 200 characters, the first query returned is
\* the trimmed input, whatever quoted phrases, hashtags, capitalised phrases or
\* mentions it holds, and also when the trimmed input has 3 characters or less.
C22_FirstQueryIsTrimmedInput ==
  \A r \in Extracts :
    Len(req[r].post_text) <= QueryMaxChars =>
      /\ Len(req[r].queries) >= 1
      /\ req[r].queries[1] = Strip(req[r].post_text)

\* a quoted word between blanks followed by a hashtag: three queries, the first
\* of them the input without its leading blank
C22_Witness ==
  \E r \in Extracts :
    LET text == << "\"" >> \o WordToken \o << "\"", "#" >> \o Upper4
    IN /\ req[r].post_text = << " " >> \o text
       /\ Len(req[r].queries) >= 2
       /\ req[r].queries[1] = text

(***************************************************************************)
(* SearchService.search called on its own                                  *)
(***************************************************************************)
SearchStart(r, queries) ==
  /\ req[r].pc = "idle"
  /\ LET f == [IdleReq EXCEPT !.op = "search", !.queries = queries, !.qi = 1]
     IN req' = [req EXCEPT ![r] =
                  IF queries = << >> THEN SearchReturned(f)
                  ELSE [f EXCEPT !.pc = "primary"]]
  /\ UNCHANGED << settings, cache, now, last_store, model >>

InitSearch == InitWith(SearchSettings)

NextSearch ==
  \/ \E queries \in SearchQueryLists : SearchStart(RequestOrder[1], queries)
  \/ \E o \in SearchOutcomes : SearchPrimary(RequestOrder[1], o)
  \/ \E o \in FallbackOutcomes : SearchFallback(RequestOrder[1], o)

SpecSearch == InitSearch /\ [][NextSearch]_vars

\* the calls of search that have returned
Searched == { r \in Requests : req[r].op = "search" /\ req[r].pc = "returned" }

\* the results of the successful provider calls, in the order of the calls
RECURSIVE Accumulated(_)
Accumulated(log) ==
  IF log = << >> THEN << >> ELSE Head(log).results \o Accumulated(Tail(log))

\* the index of the first result with this URL
FirstAt(results, url) ==
  SetMin({ i \in 1..Len(results) : results[i].url = url })

Urls(results) == { results[i].url : i \in 1..Len(results) }

\* x ranks above y in the sorted deduplicated list
RanksAbove(acc, x, y) ==
  \/ ScoreKey(x) > ScoreKey(y)
  \/ ScoreKey(x) = ScoreKey(y) /\ FirstAt(acc, x.url) < FirstAt(acc, y.url)

\* C23: the list search returns holds no two results with the same URL; for
\* each URL the result kept is its first occurrence in accumulation order
\* (query order, then the provider's order), even when a later duplicate has
\* a higher score.
C23_FirstOccurrenceOfEachUrl ==
  \A r \in Searched :
    LET out == req[r].search_results
        acc == Accumulated(req[r].search_log)
    IN /\ \A i, j \in 1..Len(out) : i # j => out[i].url # out[j].url
       /\ \A i \in 1..Len(out) :
            /\ out[i].url \in Urls(acc)
            /\ out[i] = acc[FirstAt(acc, out[i].url)]

\* two queries answered by replies whose first results share a URL, the later
\* one with the higher score: the earlier one is in the list returned
C23_Witness ==
  \E r \in Searched :
    /\ Accumulated(req[r].search_log) = PrimaryReply \o SecondReply
    /\ \E i \in 1..Len(req[r].search_results) :
         req[r].search_results[i] = PrimaryReply[1]
    /\ Len(req[r].search_results) > 3

\* C24: the list search returns is sorted by non-increasing score, a missing
\* score counting as 0, and results of equal score are in the order of their
\* accumulation after deduplication.
C24_SortedByScoreStable ==
  \A r \in Searched :
    LET out == req[r].search_results
        acc == Accumulated(req[r].search_log)
    IN \A i, j \in 1..Len(out) :
         i < j =>
           /\ ScoreKey(out[i]) >= ScoreKey(out[j])
           /\ ScoreKey(out[i]) = ScoreKey(out[j]) =>
                FirstAt(acc, out[i].url) < FirstAt(acc, out[j].url)

\* a list the sort has reordered, with two results of score 1 and, at its end,
\* a result without score ahead of a result of score 0
C24_Witness ==
  \E r \in Searched :
    LET out == req[r].search_results
    IN /\ Len(out) = 6
       /\ out[1].score = 2
       /\ out[2].score = 1 /\ out[3].score = 1
       /\ out[5].score = NoneNum /\ out[6].score = 0
       /\ out # DedupByUrl(req[r].all_results, {})

\* C25: the list search returns is never longer than max_search_results, for
\* any number of queries and of results per call, and the results kept are the
\* highest-ranked ones of the sorted deduplicated list.
C25_CappedToHighestRanked ==
  \A r \in Searched :
    LET out == req[r].search_results
        acc == Accumulated(req[r].search_log)
        n   == Cardinality(Urls(acc))
    IN /\ Len(out) <= settings.max_search_results
       /\ Len(out) = IF n < settings.max_search_results
                       THEN n ELSE settings.max_search_results
       /\ \A u \in Urls(acc) \ Urls(out) :
            \A i \in 1..Len(out) :
              RanksAbove(acc, out[i], acc[FirstAt(acc, u)])

\* six distinct URLs and a maximum of 3: the three results kept are not the
\* first three accumulated
C25_Witness ==
  \E r \in Searched :
    /\ settings.max_search_results = 3
    /\ Cardinality(Urls(req[r].all_results)) = 6
    /\ Len(req[r].search_results) = 3
    /\ req[r].search_results # Prefix(DedupByUrl(req[r].all_results, {}), 3)

\* C28: for every query the primary provider is called exactly once, whatever
\* the outcome of the earlier queries; the fallback provider is called for a
\* query exactly when the primary call for that query failed and a fallback is
\* configured; the results of every successful call are accumulated; a query
\* for which both providers fail adds nothing and does not stop the following
\* queries; search itself does not fail.
C28_EveryQueryTriedIndependently ==
  \A r \in Requests :
    req[r].op = "search" =>
      /\ req[r].pc \in { "primary", "fallback", "returned" }
      /\ req[r].all_results = Accumulated(req[r].search_log)
      /\ req[r].pc = "returned" =>
           LET log == req[r].search_log
               At(q, p) == { k \in 1..Len(log) :
                               log[k].qi = q /\ log[k].provider = p }
           IN /\ \A k \in 1..Len(log) : log[k].qi \in 1..Len(req[r].queries)
              /\ \A k1, k2 \in 1..Len(log) : k1 < k2 => log[k1].qi <= log[k2].qi
              /\ \A q \in 1..Len(req[r].queries) :
                   /\ Cardinality(At(q, "primary")) = 1
                   /\ Cardinality(At(q, "fallback")) =
                        IF settings.brave_api_key
                           /\ \E k \in At(q, "primary") : log[k].raised
                          THEN 1 ELSE 0
                   /\ \A k1 \in At(q, "primary"), k2 \in At(q, "fallback") : k1 < k2

\* two queries: both providers fail for the first, the primary answers the second
C28_Witness ==
  \E r \in Searched :
    /\ Len(req[r].queries) = 2
    /\ Len(req[r].search_log) = 3
    /\ req[r].search_log[1].raised /\ req[r].search_log[2].raised
    /\ req[r].search_log[2].provider = "fallback"
    /\ req[r].search_log[3].qi = 2
    /\ req[r].search_results # << >>

(***************************************************************************)
(* _build_sources called on its own                                        *)
(***************************************************************************)
BuildSourcesCall(r, n, marks) ==
  /\ req[r].pc = "idle"
  /\ LET search_results == Prefix(SevenResults, n)
         response == MarkTexts(marks)
     IN req' = [req EXCEPT ![r] =
                  [IdleReq EXCEPT
                     !.op = "sources", !.pc = "returned",
                     !.search_results = search_results,
                     !.raw_response = response,
                     !.cited = MarkCited(marks),
                     !.result = [sources |-> build_sources(search_results, response)]]]
  /\ UNCHANGED << settings, cache, now, last_store, model >>

InitSources == InitWith(PairSettings)

NextSources ==
  \E n \in 0..Len(SevenResults), marks \in MarkLists :
    BuildSourcesCall(RequestOrder[1], n, marks)

SpecSources == InitSources /\ [][NextSources]_vars

SourcesBuilt == { r \in Requests : req[r].op = "sources" }

Uncached ==
  { r \in Explains : req[r].pc = "returned" /\ ~req[r].result.cached }

AnthropicGenerateStartAtRemembered(r, prompt) ==
  /\ Arrives(r)
  /\ settings.anthropic_api_key
  /\ LET f0 == [Arrived("anthropic_generate", prompt, NoneStr, FALSE) EXCEPT
                  !.todo = << "anthropic" >>, !.model_at_start = model]
     IN req' = [req EXCEPT ![r] =
                  IF ~settings.anthropic_installed
                    THEN Raise(f0, "generate", NotAvailableMessage)
                    ELSE [f0 EXCEPT
                            !.attempt = CHOOSE k \in DOMAIN MODEL_FALLBACKS :
                                          MODEL_FALLBACKS[k] = model,
                            !.pc = "attempt"]]
  /\ UNCHANGED << settings, cache, now, last_store, model >>

AnthropicGenerateStart(r, prompt) ==
  /\ Arrives(r)
  /\ settings.anthropic_api_key
  /\ LET f0 == [Arrived("anthropic_generate", prompt, NoneStr, FALSE) EXCEPT
                  !.todo = << "anthropic" >>, !.model_at_start = model]
     IN req' = [req EXCEPT ![r] =
                  IF ~settings.anthropic_installed
                    THEN Raise(f0, "generate", NotAvailableMessage)
                    ELSE [f0 EXCEPT !.attempt = 1, !.pc = "attempt"]]
  /\ UNCHANGED << settings, cache, now, last_store, model >>

\* client.messages.create of the current attempt completes
AnthropicGenerated(r, outcome) ==
  /\ req[r].pc = "attempt"
  /\ LET f == [req[r] EXCEPT
                 !.calls = Bump(@, "anthropic"),
                 !.outcomes = Record(@, "anthropic", outcome),
                 !.attempts = Append(@, Tried(req[r].attempt, outcome.raised,
                                              IF outcome.raised THEN outcome.message
                                              ELSE NoneStr))]
         step == IF outcome.raised
                   THEN AnthropicGenerateExcept(f.attempt, outcome.message)
                   ELSE Step("return", outcome.value)
     IN /\ req' = [req EXCEPT ![r] =
                     IF step.do = "return"
                       THEN [f EXCEPT !.pc = "returned", !.raw_response = step.text]
                     ELSE IF step.do = "retry" THEN [f EXCEPT !.attempt = @ + 1]
                     ELSE Raise(f, "generate", step.text)]
        /\ model' = IF step.do = "return" THEN MODEL_FALLBACKS[f.attempt] ELSE model
  /\ UNCHANGED << settings, cache, now, last_store >>

InitProvider == InitWith(ProviderSettings)

NextProvider ==
  \E r \in Requests :
    \/ \E t \in SharedTexts : AnthropicGenerateStart(r, t)
    \/ \E t \in SharedTexts : AnthropicStreamStart(r, t)
    \/ \E o \in AttemptOutcomesAt(req[r].attempt) : AnthropicGenerated(r, o)
    \/ \E o \in AttemptOutcomesAt(req[r].attempt) : StreamOpened(r, o)
    \/ \E item \in ProviderItems : StreamNext(r, item)
    \/ ConsumerClose(r)

SpecProvider == InitProvider /\ [][NextProvider]_vars

\* the calls of generate and stream on the multi-model provider
ProviderCalls ==
  { r \in Requests : req[r].op \in { "anthropic_generate", "anthropic_stream" } }

\* C29: in generate and stream of the multi-model provider the models are
\* attempted in list order; an attempt that fails with a "model not found"
\* error is followed by an attempt with the next model; an attempt that fails
\* with any other error ends the call at once with that error, and a
\* successful attempt ends the call, no further model being attempted.
C29_ModelsTriedInOrder ==
  \A r \in ProviderCalls :
    LET log == req[r].attempts
        n   == Len(log)
    IN /\ \A k \in 1..n : k <= Len(MODEL_FALLBACKS) /\ log[k].model = MODEL_FALLBACKS[k]
       /\ \A k \in 1..(n - 1) : log[k].raised /\ IsNotFound(log[k].message)
       /\ req[r].pc \in { "attempt", "open", "next" } => req[r].attempt = n + 1
       /\ n >= 1 =>
            /\ ~log[n].raised => req[r].pc \in { "returned", "finished" }
            /\ (log[n].raised /\ ~IsNotFound(log[n].message)) =>
                 /\ req[r].pc = "raised"
                 /\ req[r].error = log[n].message
            /\ (log[n].raised /\ IsNotFound(log[n].message)
                  /\ n < Len(MODEL_FALLBACKS)) =>
                 /\ req[r].pc \in { "attempt", "open", "next", "closed" }
                 /\ req[r].attempt = n + 1

\* a generate call that succeeded with the second model after a "not found"
\* error of the first, and a stream call ended by another error of its third
\* attempt
C29_Witness ==
  \E r1, r2 \in ProviderCalls :
    /\ req[r1].op = "anthropic_generate" /\ req[r1].pc = "returned"
    /\ Len(req[r1].attempts) = 2
    /\ req[r2].op = "anthropic_stream" /\ req[r2].pc = "raised"
    /\ Len(req[r2].attempts) = 3
    /\ ~IsNotFound(req[r2].attempts[3].message)

\* C30: after a generate or stream call on the provider instance succeeded
\* with model m, the first attempt of the next call on that instance is made
\* with m.
C30_NextCallStartsWithRemembered ==
  \A r \in ProviderCalls :
    Len(req[r].attempts) >= 1 =>
      req[r].attempts[1].model = req[r].model_at_start

\* the calls whose attempts were made with every model of the list and all
\* failed with a "not found" error
AllNotFound(r) ==
  /\ Len(req[r].attempts) = Len(MODEL_FALLBACKS)
  /\ \A k \in 1..Len(req[r].attempts) :
       req[r].attempts[k].raised /\ IsNotFound(req[r].attempts[k].message)

\* C31: when every model of the list fails with a "model not found" error,
\* generate and stream end after one attempt per listed model, in list order,
\* by raising an error that carries the error of the last attempt; no value is
\* returned, the stream does not end normally, and no call makes more attempts
\* than there are models.
C31_AllNotFoundRaisesLastError ==
  \A r \in ProviderCalls :
    LET log == req[r].attempts
        n   == Len(log)
    IN /\ n <= Len(MODEL_FALLBACKS)
       /\ AllNotFound(r) =>
            /\ \A k \in 1..n : log[k].model = MODEL_FALLBACKS[k]
            /\ req[r].pc = "raised"
            /\ req[r].error =
                 (IF req[r].op = "anthropic_generate" THEN GenerateFailedPrefix
                  ELSE StreamFailedPrefix) \o log[n].message
            /\ req[r].raw_response = NoneStr

\* a generate call and a stream call that each went through the whole list,
\* the last error of the generate call worded differently from its first
C31_Witness ==
  \E r1, r2 \in ProviderCalls :
    /\ req[r1].op = "anthropic_generate" /\ AllNotFound(r1)
    /\ req[r1].attempts[1].message # req[r1].attempts[5].message
    /\ req[r2].op = "anthropic_stream" /\ AllNotFound(r2)

\* C32: within one call of the multi-model provider's stream all the chunks
\* come from one attempt: once a chunk has been yielded to the consumer, no
\* later error, a "model not found" error raised while the stream is iterated
\* included, makes the call go on to another model.
C32_NoRetryAfterChunk ==
  [][\A r \in Requests :
       (req[r].op = "anthropic_stream" /\ req[r].events # << >>) =>
         req'[r].attempt = req[r].attempt]_vars

\* a call that has ended
ProviderCallEnded(r) == req[r].pc \in { "returned", "finished", "raised" }

\* C33: with two generate / stream calls running concurrently on one provider
\* instance, each call attempts the models in list order from the first one,
\* skipping none, ends only on an outcome of its own latest attempt (a success,
\* an error that is not "not found", or the last model's "not found" error),
\* and its result is that attempt's: the value it returned, the texts it
\* produced, or its error.
C33_ConcurrentCallsIndependent ==
  \A r \in ProviderCalls :
    settings.anthropic_installed =>
      LET log  == req[r].attempts
          n    == Len(log)
          own  == req[r].outcomes["anthropic"]
      IN /\ \A k \in 1..n : log[k].model = MODEL_FALLBACKS[k]
         /\ ~ProviderCallEnded(r) /\ ~req[r].closed => req[r].attempt = n + 1
         /\ ProviderCallEnded(r) =>
              /\ n >= 1
              /\ \/ ~log[n].raised
                 \/ ~IsNotFound(log[n].message)
                 \/ n = Len(MODEL_FALLBACKS)
         /\ req[r].pc = "returned" =>
              /\ ~log[n].raised /\ ~own.raised
              /\ req[r].raw_response = own.value
         /\ req[r].pc = "raised" =>
              /\ log[n].raised /\ own.raised /\ own.message = log[n].message
              /\ req[r].error \in
                   { own.message, GenerateFailedPrefix \o own.message,
                     StreamFailedPrefix \o own.message }
         /\ req[r].op = "anthropic_stream" =>
              [k \in 1..Len(req[r].events) |-> req[r].events[k].data] = req[r].produced

\* two calls in flight at the same time (each began before the other's first
\* success was remembered), ended with different models and different values
C33_Witness ==
  \E r1, r2 \in ProviderCalls :
    /\ req[r1].model_at_start = MODEL_FALLBACKS[1]
    /\ req[r2].model_at_start = MODEL_FALLBACKS[1]
    /\ req[r1].op = "anthropic_generate" /\ req[r1].pc = "returned"
    /\ Len(req[r1].attempts) = 3
    /\ req[r2].op = "anthropic_generate" /\ req[r2].pc = "returned"
    /\ Len(req[r2].attempts) = 2
    /\ req[r1].raw_response # req[r2].raw_response
    /\ model = MODEL_FALLBACKS[2]

\* C34: in PostExplainer.compare_providers a provider's entry is an error entry
\* {error, bullets: [], sources: []} if and only if that provider's generate
\* call failed; the entry of a provider whose generate call succeeded holds the
\* parsed bullets and the filtered sources of its reply, whatever the text of
\* the reply, a reply that begins with "Error:" included.
C34_ErrorEntryIffGenerateFailed ==
  \A r \in Compares :
    req[r].pc = "returned" =>
      \A n \in DOMAIN req[r].result.providers :
        LET entry   == req[r].result.providers[n]
            outcome == req[r].outcomes[n]
        IN /\ ("error" \in DOMAIN entry) <=> outcome.raised
           /\ outcome.raised =>
                entry = [error |-> ErrorString(outcome.message),
                         bullets |-> << >>, sources |-> << >>]
           /\ ~outcome.raised =>
                entry = ParsedEntry(outcome.value, req[r].search_results)

(***************************************************************************)
(* Two requests through the /explain route whose post texts hold the       *)
(* separator of the cache key and whose image URLs differ in case          *)
(***************************************************************************)
IdentityTexts == { << "a" >>, << "a", ":", "b" >> }
IdentityImageUrls ==
  { NoneStr, << "b" >>, << "B" >>, << "b", ":", "c" >>, << "c" >> }

InitIdentity == InitWith(PairSettings)

NextIdentity ==
  \/ \E r \in Requests, t \in IdentityTexts, u \in IdentityImageUrls :
       ExplainStart(r, t, u, TRUE)
  \/ \E r \in Requests, fetch \in PairImageFetches : ImageDone(r, fetch)
  \/ \E r \in Requests, o \in PrimaryOutcomes : SearchPrimary(r, o)
  \/ \E r \in Requests, o \in PairOutcomes : ExplainGenerate(r, o)

SpecIdentity == InitIdentity /\ [][NextIdentity]_vars

\* C35: explain serves a request from the cache only with a result stored for
\* the same request identity, the pair of the normalised post text and the
\* image_url: a request that differs from the earlier one in that pair is not
\* served from the earlier one's entry.  So the text "a:b" without an image
\* and the text "a" with the image_url "b" share no entry, and neither do two
\* requests whose image URLs differ only in letter case.
C35_CacheHitOnlyForSameIdentity ==
  [][\A r1, r2 \in Requests :
       ( /\ r1 # r2
         /\ req[r1].op = "explain"
         /\ req[r2].pc = "idle"
         /\ req'[r2].op = "explain" /\ req'[r2].pc = "returned"
         /\ req'[r2].result.cached ) =>
           /\ SameNormalizedText(req[r1].post_text, req'[r2].post_text)
           /\ req[r1].image_url = req'[r2].image_url]_vars

\* C36: within one explain request the steps occur in a fixed order, each at
\* most once: the cache lookup is the first step and precedes the image
\* download (a request served from the cache has made no call), the search
\* precedes the generate call, generate is called once, with the prompt built
\* from the results the request's search returned, and the cache is written
\* only in the step in which generate returned successfully, so that the
\* entry is there when the response is returned.
C36_StepsInOrder ==
  [][\A r \in Requests :
       (req'[r].op = "explain" /\ req'[r] # req[r]) =>
         LET f   == req[r]
             g   == req'[r]
             key == generate_key(CacheKeyText(g.post_text, g.image_url))
             generated(x) == x.calls.openai + x.calls.anthropic
             searched(x)  == x.calls.primary + x.calls.fallback
         IN /\ g.calls.image <= 1 /\ generated(g) <= 1
            /\ f.pc = "idle" => g.calls = ZeroCalls
            /\ (g.pc = "returned" /\ g.result.cached) => f.pc = "idle"
            /\ g.calls.image > f.calls.image => searched(f) = 0 /\ generated(f) = 0
            /\ searched(g) > searched(f) => generated(f) = 0
            /\ generated(g) > generated(f) =>
                 /\ f.pc = "generate"
                 /\ searched(f) >= Len(f.queries)
                 /\ f.search_results =
                      FinishSearch(f.all_results, settings.max_search_results)
                 /\ f.prompt = build_explanation_prompt(f.post_text, f.search_results)
            /\ Written(cache, cache') =>
                 /\ generated(g) > generated(f)
                 /\ ~g.outcomes[DefaultProvider(settings)].raised
                 /\ g.pc = "returned"
            /\ (g.pc = "returned" /\ ~g.result.cached /\ g.use_cache) =>
                 /\ generated(g) > generated(f)
                 /\ key \in DOMAIN cache'
                 /\ cache'[key] =
                      [value |-> CacheValue(g.result.bullets, g.result.sources),
                       timestamp |-> now]]_vars

\* a request with an image went through every step and stored its response,
\* and a second request for the same post was served from that entry
C36_Witness ==
  \E r1, r2 \in Explains :
    /\ req[r1].pc = "returned" /\ ~req[r1].result.cached
    /\ req[r1].calls.image = 1 /\ req[r1].calls.primary = Len(req[r1].queries)
    /\ req[r1].calls.openai = 1 /\ req[r1].cache_written
    /\ req[r1].search_results # req[r1].all_results
    /\ req[r2].pc = "returned" /\ req[r2].result.cached
    /\ NoPipelineCalls(req[r2])

\* C37: the citation indices are the same along the pipeline: every Source of
\* a response of explain or compare_providers has an id i between 1 and the
\* number of search results, the ids are strictly increasing, and the Source
\* with id i has the url and the title of the i-th search result, which is the
\* result rendered as [i] in the prompt given to the model; a marker in the
\* model text that is 0 or exceeds the number of results adds no source and
\* raises no error.
C37_CitationIndicesConsistent ==
  LET Consistent(f, sources) ==
        LET results == f.search_results
            parts   == f.prompt.search_context.parts
        IN /\ Len(parts) = Len(results)
           /\ \A k1, k2 \in 1..Len(sources) :
                k1 < k2 => sources[k1].id < sources[k2].id
           /\ \A k \in 1..Len(sources) :
                LET i == sources[k].id
                IN /\ i \in 1..Len(results)
                   /\ sources[k].url = results[i].url
                   /\ sources[k].title = results[i].title
                   /\ parts[i].n = i
                   /\ parts[i].url = results[i].url
                   /\ parts[i].title = results[i].title
  IN /\ \A r \in Explains :
          /\ req[r].pc = "returned" => Consistent(req[r], req[r].result.sources)
          /\ (DefaultProvider(settings) \in DOMAIN req[r].outcomes
                /\ ~req[r].outcomes[DefaultProvider(settings)].raised) =>
                  req[r].pc = "returned"
     /\ \A r \in Compares :
          req[r].pc = "returned" =>
            \A n \in DOMAIN req[r].result.providers :
              Consistent(req[r], req[r].result.providers[n].sources)

\* an explain call with four results, ranked otherwise than they were found,
\* whose model text cites [0] and [9]: the sources are the first three
C37_Witness ==
  \E r \in Explains :
    /\ req[r].pc = "returned"
    /\ req[r].outcomes["openai"].value = OutOfRangeReply
    /\ Len(req[r].search_results) = 4
    /\ req[r].search_results # req[r].all_results
    /\ Len(req[r].result.sources) = 3

(***************************************************************************)
(* _parse_bullets called on its own.  The model text is made of lines whose *)
(* cleaned text is known from the way the line is built: up to MaxBullets   *)
(* bulleted lines of 13 characters, then up to MaxLines lines of the kinds  *)
(* below.                                                                   *)
(***************************************************************************)
Line(text, body) == [text |-> text, body |-> body]

LongLine(k) ==
  LET body == << "l", "o", "n", "g", " ", "l", "i", "n", "e", " ", "n", "o",
                 DigitSeq[k + 1] >>
  IN Line(<< BulletChar, " " >> \o body, body)

Eleven == << "a", "b", "c", "d", "e", "f", "g", "h", "i", "j", "k" >>
Ten    == << "a", "b", "c", "d", "e", "f", "g", "h", "i", "j" >>

Lines ==
  { Line(<< BulletChar, " " >> \o Eleven, Eleven),
    Line(<< "-", " " >> \o Ten, Ten),
    Line(<< "*", " ", "1", ".", " " >> \o Eleven, Eleven),
    Line(<< "2", ")", " " >> \o Eleven, Eleven),
    Line(<< "1", "2", "." >> \o Eleven, Eleven),
    Line(<< "s", "h", "o", "r", "t" >>, << "s", "h", "o", "r", "t" >>),
    Line(<< " ", " " >>, << >>),
    Line(<< " ", "\t" >> \o Eleven \o << " ", "\r" >>, Eleven),
    \* a bullet marker after a numbering marker, and a second bullet marker,
    \* are part of the cleaned text
    Line(<< "1", ".", " ", "-", " " >> \o Ten, << "-", " " >> \o Ten),
    Line(<< "-", "-", " " >> \o Ten, << "-", " " >> \o Ten) }

LineLists == UNION { [1..n -> Lines] : n \in 0..MaxLines }

ParseBulletsCall(r, k, lines) ==
  /\ req[r].pc = "idle"
  /\ LET all == [j \in 1..k |-> LongLine(j)] \o lines
         raw_response == JoinWith([j \in 1..Len(all) |-> all[j].text], << "\n" >>)
     IN req' = [req EXCEPT ![r] =
                  [IdleReq EXCEPT
                     !.op = "parse", !.pc = "returned",
                     !.raw_response = raw_response,
                     !.bodies = [j \in 1..Len(all) |-> all[j].body],
                     !.result = [bullets |-> parse_bullets(raw_response)]]]
  /\ UNCHANGED << settings, cache, now, last_store, model >>

InitParse == InitWith(PairSettings)

NextParse ==
  \E k \in 0..MaxBullets, lines \in LineLists :
    ParseBulletsCall(RequestOrder[1], k, lines)

SpecParse == InitParse /\ [][NextParse]_vars

Parsed == { r \in Requests : req[r].op = "parse" }

\* the cleaned texts of more than 10 characters, in the order of their lines
LongBodies(r) == SelectSeq(req[r].bodies, LAMBDA b : Len(b) > 10)

\* C38 as stated: _parse_bullets returns, in the order of the lines, the first
\* five of the lines whose text, trimmed and stripped of one leading bullet
\* marker and one leading numbering marker, is longer than 10 characters.
C38_FirstFiveLongLines ==
  \A r \in Parsed :
    req[r].result.bullets = Prefix(LongBodies(r), 5)

\* C38 amended: the bullets are the first five of the cleaned texts longer than
\* 10 characters, the cleaned text of a line being the trimmed line without a
\* leading bullet marker and, after that, without a leading numbering marker,
\* each with the whitespace that follows it; when no line gives such a text,
\* the result is the trimmed model text as one bullet, or nothing when that
\* text is empty.  Two long bulleted lines and a line "short" give 2 bullets.
C38_FirstFiveLongLinesOrWholeText ==
  \A r \in Parsed :
    LET kept    == LongBodies(r)
        bullets == req[r].result.bullets
        whole   == Strip(req[r].raw_response)
    IN /\ kept # << >> => bullets = Prefix(kept, 5)
       /\ (kept = << >> /\ whole # << >>) => bullets = << whole >>
       /\ (kept = << >> /\ whole = << >>) => bullets = << >>
       /\ req[r].bodies =
            << LongLine(1).body, LongLine(2).body, << "s", "h", "o", "r", "t" >> >>
              => Len(bullets) = 2

\* four long lines, then a line with both markers and a line with a numbering
\* marker: the sixth line is cut
C38_Witness ==
  \E r \in Parsed :
    /\ Len(req[r].bodies) = 6
    /\ Len(LongBodies(r)) = 6
    /\ StartsWith(req[r].raw_response, LongLine(1).text)
    /\ Contains(req[r].raw_response, << "*", " ", "1", ".", " " >>)
    /\ Len(req[r].result.bullets) = 5
    /\ req[r].result.bullets[5] = Eleven

\* C39: cleanup_expired removes exactly the entries whose age exceeds the TTL,
\* leaves every other entry with its value and its timestamp, and returns the
\* number of entries it removed; a get on a surviving key returns after the
\* sweep the value it would have returned before it.
C39_SweepRemovesExactlyExpired ==
  [][\A r \in Requests :
       (req'[r].op = "cache_cleanup" /\ now' = now) =>
         LET gone == { k \in DOMAIN cache :
                         now - cache[k].timestamp > settings.cache_ttl }
         IN /\ DOMAIN cache' = DOMAIN cache \ gone
            /\ \A k \in DOMAIN cache' : cache'[k] = cache[k]
            /\ req'[r].result.removed = Cardinality(gone)
            /\ \A t \in CacheTexts :
                 generate_key(t) \in DOMAIN cache' =>
                   /\ CacheGet(cache', t, now, settings.cache_ttl).value =
                        CacheGet(cache, t, now, settings.cache_ttl).value
                   /\ CacheGet(cache', t, now, settings.cache_ttl).value =
                        cache[generate_key(t)].value]_vars

\* a sweep that removed one entry and left another
C39_Witness ==
  \E r \in Requests :
    /\ req[r].op = "cache_cleanup"
    /\ req[r].result.removed = 1
    /\ Cardinality(req[r].cache_evicted) = 1
    /\ Cardinality(DOMAIN cache) = 1
    /\ \A k \in DOMAIN cache : now - cache[k].timestamp <= settings.cache_ttl

====
